---- MODULE Spec2Model ----
(***************************************************************************)
(* Peer session protocol of the p2p-git-remote daemon: trust-gated         *)
(* handshake, one-shot request/response streams, command dispatch, the     *)
(* repository registry, path-confined file handlers, commit and the        *)
(* stash-aware branch switch.  Strings whose content the code inspects     *)
(* (paths, branch names, stash messages, operator answers) are sequences   *)
(* of one-character strings so that prefix / substring tests are computed  *)
(* the way the Go code computes them.                                      *)
(***************************************************************************)
EXTENDS Integers, Sequences, FiniteSets, TLC

\* ---------------------------------------------------------------- bounds
\* number of inbound streams the daemon serves in one run
MaxStreams == 2
\* pieces of uncommitted work that may be created per branch
MaxEdits == 1

Streams == 1..MaxStreams
Peers == {"peerA", "peerB"}

\* ------------------------------------------------------- string helpers
\* strings.HasPrefix
HasPrefix(s, prefix) ==
    Len(prefix) <= Len(s) /\ SubSeq(s, 1, Len(prefix)) = prefix

\* strings.Contains
Contains(s, substr) ==
    \E i \in 0..(Len(s) - Len(substr)) : SubSeq(s, i + 1, i + Len(substr)) = substr

\* strings.ToLower on the letters an operator answer is made of
ToLower(s) ==
    [i \in 1..Len(s) |-> CASE s[i] = "Y" -> "y"
                           [] s[i] = "N" -> "n"
                           [] OTHER -> s[i]]

IsSpace(c) == c \in {" ", "\n", "\t", "\r"}

\* strings.TrimSpace
TrimSpace(s) ==
    IF \A i \in 1..Len(s) : IsSpace(s[i]) THEN <<>>
    ELSE LET lo == CHOOSE i \in 1..Len(s) :
                       ~IsSpace(s[i]) /\ \A j \in 1..(i - 1) : IsSpace(s[j])
             hi == CHOOSE i \in 1..Len(s) :
                       ~IsSpace(s[i]) /\ \A j \in (i + 1)..Len(s) : IsSpace(s[j])
         IN SubSeq(s, lo, hi)

RECURSIVE Split(_, _)
\* strings.Split with a one-character separator
Split(s, sep) ==
    IF \A i \in 1..Len(s) : s[i] # sep THEN <<s>>
    ELSE LET i == CHOOSE k \in 1..Len(s) :
                      s[k] = sep /\ \A j \in 1..(k - 1) : s[j] # sep
         IN <<SubSeq(s, 1, i - 1)>> \o Split(SubSeq(s, i + 1, Len(s)), sep)

RECURSIVE CleanComps(_, _)
\* the component walk of filepath.Clean for a rooted path: empty and "."
\* elements vanish, ".." removes the element before it and is dropped at
\* the root
CleanComps(comps, acc) ==
    IF comps = <<>> THEN acc
    ELSE LET c == Head(comps)
         IN IF c = <<>> \/ c = <<".">>
            THEN CleanComps(Tail(comps), acc)
            ELSE IF c = <<".", ".">>
            THEN CleanComps(Tail(comps),
                            IF acc = <<>> THEN <<>>
                            ELSE SubSeq(acc, 1, Len(acc) - 1))
            ELSE CleanComps(Tail(comps), Append(acc, c))

RECURSIVE JoinComps(_)
JoinComps(cs) ==
    IF cs = <<>> THEN <<>>
    ELSE <<"/">> \o Head(cs) \o JoinComps(Tail(cs))

\* filepath.Clean of a rooted path
Clean(p) ==
    LET cs == CleanComps(Split(p, "/"), <<>>)
    IN IF cs = <<>> THEN <<"/">> ELSE JoinComps(cs)

\* filepath.Join(root, rel): the elements joined by "/" and cleaned
Join(root, rel) == Clean(root \o <<"/">> \o rel)

IsAbs(p) == Len(p) > 0 /\ p[1] = "/"

\* working directory of the daemon process
Cwd == <<"/", "a">>

\* filepath.Abs when os.Getwd succeeds
Abs(p) == IF IsAbs(p) THEN Clean(p) ELSE Join(Cwd, p)

\* --------------------------------------------------------------- domain
\* repository root linked at start-up and a sibling directory whose name
\* starts with the root's name
RepoRoot == <<"/", "a", "/", "p">>
SiblingRoot == <<"/", "a", "/", "p", "s">>

Aliases == {"proj", "docs"}

\* protocol type tags
TypeHandshakeRequest == "HANDSHAKE_REQUEST"
TypeHandshakeResponse == "HANDSHAKE_RESPONSE"
TypeListReposRequest == "LIST_REPOS_REQUEST"
TypeListReposResponse == "LIST_REPOS_RESPONSE"
TypeLinkRepoRequest == "LINK_REPO_REQUEST"
TypeLinkRepoResponse == "LINK_REPO_RESPONSE"
TypeSwitchBranchRequest == "SWITCH_BRANCH_REQUEST"
TypeSwitchBranchResponse == "SWITCH_BRANCH_RESPONSE"
TypeGitCommitRequest == "GIT_COMMIT_REQUEST"
TypeGitCommitResponse == "GIT_COMMIT_RESPONSE"
TypeReadFileRequest == "READ_FILE_REQUEST"
TypeReadFileResponse == "READ_FILE_RESPONSE"
TypeWriteFileRequest == "WRITE_FILE_REQUEST"
TypeWriteFileResponse == "WRITE_FILE_RESPONSE"
TypeRenameFileRequest == "RENAME_FILE_REQUEST"
TypeRenameFileResponse == "RENAME_FILE_RESPONSE"
TypeListFilesRequest == "LIST_FILES_REQUEST"
TypeListFilesResponse == "LIST_FILES_RESPONSE"
TypeCreateBranchRequest == "CREATE_BRANCH_REQUEST"
TypeCreateBranchResponse == "CREATE_BRANCH_RESPONSE"
TypeListBranchesRequest == "LIST_BRANCHES_REQUEST"
TypeListBranchesResponse == "LIST_BRANCHES_RESPONSE"
TypeGitStatusRequest == "GIT_STATUS_REQUEST"
TypeGitStatusResponse == "GIT_STATUS_RESPONSE"
TypeGitLogRequest == "GIT_LOG_REQUEST"
TypeGitLogResponse == "GIT_LOG_RESPONSE"
TypeGitDiffRequest == "GIT_DIFF_REQUEST"
TypeGitDiffResponse == "GIT_DIFF_RESPONSE"
TypeGitStashSaveRequest == "GIT_STASH_SAVE_REQUEST"
TypeGitStashSaveResponse == "GIT_STASH_SAVE_RESPONSE"
TypeGitStashPopRequest == "GIT_STASH_POP_REQUEST"
TypeGitStashPopResponse == "GIT_STASH_POP_RESPONSE"
TypeGitResetRequest == "GIT_RESET_REQUEST"
TypeGitResetResponse == "GIT_RESET_RESPONSE"

NoArg == <<>>
\* a request as its handler holds it: the message type and the fields of the
\* payload struct after json.Unmarshal, with whether Unmarshal returned an error
Message(t, alias, a1, a2) ==
    [type |-> t, alias |-> alias, arg |-> a1, arg2 |-> a2, err |-> FALSE]

\* a payload as sent: a JSON value that is an object or not; in an object
\* the keys named in bad hold a number where the struct has a string, and
\* "dup" says a repo_path key holding a number precedes the one holding alias
RawPayload(object, alias, a1, a2, bad) ==
    [object |-> object, alias |-> alias, arg |-> a1, arg2 |-> a2, bad |-> bad]

\* json.Unmarshal(rawPayload, &payload): a value that is no object leaves
\* the struct zero; in an object a key of the wrong type is skipped, the
\* other keys are stored, and the first such error is returned at the end
Unmarshal(t, raw) ==
    IF ~raw.object
    THEN [type |-> t, alias |-> "", arg |-> <<>>, arg2 |-> <<>>, err |-> TRUE]
    ELSE [type |-> t,
          alias |-> IF "alias" \in raw.bad THEN "" ELSE raw.alias,
          arg |-> IF "arg" \in raw.bad THEN <<>> ELSE raw.arg,
          arg2 |-> IF "arg2" \in raw.bad THEN <<>> ELSE raw.arg2,
          err |-> (raw.bad # {})]
NoMsg == Message("none", "", NoArg, NoArg)

\* what a peer can leave on a stream in place of one JSON message: nothing
\* before it closes, bytes that are not JSON, the start of a message
NoBytes == Message("no bytes", "", NoArg, NoArg)
BadBytes == Message("bad bytes", "", NoArg, NoArg)
CutBytes == Message("cut bytes", "", NoArg, NoArg)

\* the error of json.NewDecoder(stream).Decode(&msg)
Decode(m) ==
    CASE m.type = "no bytes" -> "EOF"
      [] m.type = "bad bytes" -> "invalid character"
      [] m.type = "cut bytes" -> "unexpected EOF"
      [] OTHER -> "nil"

\* fmt.Errorf("failed to decode message: %w", err).Error()
Errorf(e) ==
    CASE e = "EOF" -> "failed to decode message: EOF"
      [] e = "unexpected EOF" -> "failed to decode message: unexpected EOF"
      [] OTHER -> "failed to decode message: invalid character"

\* the text of the error ReadMessage returns, "nil" for none
ReadMessage(m) == IF Decode(m) = "nil" THEN "nil" ELSE Errorf(Decode(m))

\* n counts the messages written to the stream so far
NoResp == [type |-> "none", success |-> FALSE, approved |-> FALSE,
           output |-> "", repos |-> {}, n |-> 0]
Response(t, ok, out) == [type |-> t, success |-> ok, approved |-> FALSE,
                         output |-> out, repos |-> {}, n |-> 1]

\* protocol.WriteMessage: message r goes out on a stream whose last message
\* was last
Sent(last, r) == [r EXCEPT !.n = last.n + 1]

\* a persisted JSON document: whole with a body, or cut short by a write
\* that failed half way (os.WriteFile truncates before it writes)
Doc(body) == [whole |-> TRUE, body |-> body]
Truncated == [whole |-> FALSE, body |-> <<>>]

\* the orders in which ranging over a Go map can list a set of keys
Enumerations(S) ==
    {q \in [1..Cardinality(S) -> S] : \A x \in S : \E i \in DOMAIN q : q[i] = x}

\* every listing of every set of peers
PeerLists == UNION {Enumerations(S) : S \in SUBSET Peers}

\* operator input lines as bufio.Reader.ReadString returns them
AnswerYes == <<"y", "\n">>
AnswerYesLoose == <<" ", "Y", "\n">>
AnswerNo == <<"n", "\n">>
Answers == {AnswerYes, AnswerYesLoose, AnswerNo}

NoLoc == [approved |-> FALSE, answerFor |-> 0, err |-> "none", already |-> FALSE,
          data |-> <<>>, root |-> <<>>, current |-> <<>>, index |-> 0, wt0 |-> {},
          out |-> <<>>, after |-> {}, reads |-> 0, cmdOut |-> "",
          saved |-> {}, logged |-> ""]

\* the default branch name the client starts with
Master == <<"m", "a", "s", "t", "e", "r">>

\* the client at start-up: the REPL's clientState and the TUI's AppState,
\* no command in flight; prev is the context when the command was entered
NoClient ==
    [currentRepo |-> "", currentBranch |-> Master, CurrentBranch |-> Master,
     cmd |-> "none", alias |-> "", arg |-> <<>>, stream |-> 0,
     prev |-> [currentRepo |-> "", currentBranch |-> Master, CurrentBranch |-> Master]]

VARIABLES
    trusted,       \* TrustStore.trustedPeers (in memory)
    trustedDisk,   \* trusted_peers.json
    linkedRepos,   \* alias -> absolute root (in memory)
    linkedDisk,    \* linked_repos.json
    stdin,         \* operator lines typed and not yet read
    pc,            \* per stream: position of its goroutine
    peer,          \* per stream: stream.Conn().RemotePeer()
    msg,           \* per stream: the request the client sent
    resp,          \* per stream: the response written, if any
    loc,           \* per stream: locals of the running handler
    handler,       \* per stream: command handler dispatched to, if any
    wasTrusted,    \* per stream: Trust Store membership when it was routed
    approvedBy,    \* peers whose handshake prompt the operator answered yes to
    answered,      \* streams whose prompt the operator has typed an answer for
    initialTrusted,\* Trust Store content loaded at start-up
    linkedOK,      \* aliases of LinkRepo requests answered success=true
    branch,        \* the repository at RepoRoot: branch checked out
    wt,            \* its working tree: pieces of uncommitted work <<branch, k>>
    stash,         \* its stash list, most recent first
    committed,     \* pieces of work recorded by a commit
    created,       \* every piece of uncommitted work that ever existed
    faults,        \* a backend step failed for a reason outside the request
    branches,      \* its branch names
    gitLog,        \* the git invocations each stream made, in order
    fsLog,         \* filesystem and git-mv accesses: [s, op, path]
    client         \* the client process: its context and the command in flight

vars == <<trusted, trustedDisk, linkedRepos, linkedDisk, stdin, pc, peer, msg,
          resp, loc, handler, wasTrusted, approvedBy, answered, initialTrusted,
          linkedOK, branch, wt, stash, committed, created, faults, branches,
          gitLog, fsLog, client>>

trustVars == <<trusted, trustedDisk>>
registryVars == <<linkedRepos, linkedDisk, linkedOK>>
operatorVars == <<stdin, approvedBy, answered>>
repoVars == <<branch, wt, stash, committed, created, faults, branches, gitLog, fsLog>>

\* ---------------------------------------------------------- Trust Store
\* TrustStore.IsTrusted
IsTrusted(p) == p \in trusted

\* ------------------------------------------------------------- streams
\* a client opens a stream to the daemon and writes its one request; the
\* streams are numbered in the order they arrive
OpenStream(s, p, m) ==
    /\ pc[s] = "idle"
    /\ \A r \in 1..(s - 1) : pc[r] # "idle"
    /\ pc' = [pc EXCEPT ![s] = "accepted"]
    /\ peer' = [peer EXCEPT ![s] = p]
    /\ msg' = [msg EXCEPT ![s] = m]
    /\ UNCHANGED <<repoVars, trustVars, registryVars, operatorVars, resp, loc, handler,
                   wasTrusted, initialTrusted, client>>

\* the branch of handleStream on the value IsTrusted returned
routeOnTrust(s) ==
    /\ wasTrusted' = [wasTrusted EXCEPT ![s] = (peer[s] \in trusted)]
    /\ pc' = [pc EXCEPT ![s] = IF IsTrusted(peer[s]) THEN "trusted" ELSE "handshake"]
    /\ UNCHANGED <<repoVars, trustVars, registryVars, operatorVars, peer, msg, resp, loc,
                   handler, initialTrusted, client>>

\* handleStream: route on Trust Store membership
\* a daemon that serves one stream at a time: a stream is read only when
\* no other stream is being served
handleStreamSerial(s) ==
    /\ pc[s] = "accepted"
    /\ \A r \in Streams \ {s} : pc[r] \in {"idle", "closed"}
    /\ routeOnTrust(s)

handleStream(s) ==
    /\ pc[s] = "accepted"
    /\ routeOnTrust(s)

\* a handshake path that takes whatever message arrived for a request
IsHandshakeRequestLax(m) == m.type # "none"

\* the type test of handleHandshake
IsHandshakeRequest(m) == m.type = TypeHandshakeRequest

\* a handshake path that keeps denials in mind: a peer that was answered
\* approved=false before is turned away without a prompt
handleHandshakeRemembering(s) ==
    /\ pc[s] = "handshake"
    /\ pc' = [pc EXCEPT ![s] =
                IF /\ IsHandshakeRequest(msg[s])
                   /\ ~\E r \in Streams : /\ peer[r] = peer[s]
                                           /\ resp[r].type = TypeHandshakeResponse
                                           /\ ~resp[r].approved
                THEN "prompt" ELSE "closed"]
    /\ loc' = [loc EXCEPT ![s] = [@ EXCEPT !.reads = @ + 1,
                                           !.after = {r \in Streams : pc[r] = "closed"}]]
    /\ UNCHANGED <<repoVars, trustVars, registryVars, operatorVars, peer, msg, resp,
                   handler, wasTrusted, initialTrusted, client>>

\* handleHandshake up to the approval prompt: read the request, return on
\* anything that is not a handshake request, else print the prompt
handleHandshake(s) ==
    /\ pc[s] = "handshake"
    /\ IF ReadMessage(msg[s]) # "nil"
       THEN /\ loc' = [loc EXCEPT ![s] = [@ EXCEPT !.logged = ReadMessage(msg[s])]]
            /\ pc' = [pc EXCEPT ![s] = "closed"]
       ELSE /\ pc' = [pc EXCEPT ![s] = IF IsHandshakeRequest(msg[s]) THEN "prompt"
                                       ELSE "closed"]
            /\ loc' = [loc EXCEPT ![s] = [@ EXCEPT !.reads = @ + 1,
                                  !.after = {r \in Streams : pc[r] = "closed"}]]
    /\ UNCHANGED <<repoVars, trustVars, registryVars, operatorVars, peer, msg, resp,
                   handler, wasTrusted, initialTrusted, client>>

\* the operator reads a prompt on the terminal and types a line meant for it
OperatorAnswer(s, line) ==
    /\ pc[s] = "prompt"
    /\ s \notin answered
    /\ answered' = answered \cup {s}
    /\ stdin' = Append(stdin, [for |-> s, line |-> line])
    /\ approvedBy' = IF TrimSpace(ToLower(line)) = <<"y">>
                     THEN approvedBy \cup {peer[s]} ELSE approvedBy
    /\ UNCHANGED <<repoVars, trustVars, registryVars, pc, peer, msg, resp, loc, handler,
                   wasTrusted, initialTrusted, client>>

\* the decision computed from the line read
Approved(answer) == TrimSpace(ToLower(answer)) = <<"y">>

\* handleHandshake: reader.ReadString on the process's standard input; the
\* goroutines blocked there are served in no particular order
handleHandshakeRead(s) ==
    /\ pc[s] = "prompt"
    /\ stdin # <<>>
    /\ stdin' = Tail(stdin)
    /\ loc' = [loc EXCEPT ![s] = [@ EXCEPT !.approved = Approved(Head(stdin).line),
                                           !.answerFor = Head(stdin).for]]
    /\ pc' = [pc EXCEPT ![s] = "hs_respond"]
    /\ UNCHANGED <<repoVars, trustVars, registryVars, approvedBy, answered, peer, msg, resp,
                   handler, wasTrusted, initialTrusted, client>>

\* handleHandshake: write HANDSHAKE_RESPONSE; a failed write returns
handleHandshakeRespond(s, writeOk) ==
    /\ pc[s] = "hs_respond"
    /\ IF writeOk
       THEN /\ resp' = [resp EXCEPT ![s] = Sent(@,
                           [Response(TypeHandshakeResponse, TRUE, "")
                               EXCEPT !.approved = loc[s].approved])]
            /\ pc' = [pc EXCEPT ![s] = IF loc[s].approved THEN "hs_add" ELSE "closed"]
       ELSE /\ resp' = resp
            /\ pc' = [pc EXCEPT ![s] = "closed"]
    /\ UNCHANGED <<repoVars, trustVars, registryVars, operatorVars, peer, msg, loc, handler,
                   wasTrusted, initialTrusted, client>>

\* a save that opens the file for appending instead of truncating it
saveAppending(peers, ok, partial) ==
    IF ok THEN Doc(trustedDisk.body \o peers)
    ELSE IF partial THEN Truncated ELSE trustedDisk

\* TrustStore.save: the peers of the map are listed and the document is
\* rewritten wholesale; a failed os.WriteFile leaves the old document or a
\* truncated one
save(peers, ok, partial) ==
    IF ok THEN Doc(peers)
    ELSE IF partial THEN Truncated ELSE trustedDisk

\* a map entry set on a map made afresh
SetTrustedFresh(peers, p) == {p}

\* ts.trustedPeers[peerID] = true
SetTrusted(peers, p) == peers \cup {p}

\* an AddTrustedPeer whose save writes only the peer just added
setAndSaveOwn(s, order, ok, partial) ==
    /\ trusted' = SetTrusted(trusted, peer[s])
    /\ order \in Enumerations(trusted')
    /\ trustedDisk' = save(<<peer[s]>>, ok, partial)
    /\ loc' = [loc EXCEPT ![s] = [@ EXCEPT !.err = IF ok THEN "nil" ELSE "write failed",
                                           !.already = (peer[s] \in trusted)]]
    /\ pc' = [pc EXCEPT ![s] = "closed"]
    /\ UNCHANGED <<repoVars, registryVars, operatorVars, peer, msg, resp, handler,
                   wasTrusted, initialTrusted, client>>

\* the body of TrustStore.AddTrustedPeer: set the map entry, save, return
\* save's error
setAndSave(s, order, ok, partial) ==
    /\ trusted' = SetTrusted(trusted, peer[s])
    /\ order \in Enumerations(trusted')
    /\ trustedDisk' = save(order, ok, partial)
    /\ loc' = [loc EXCEPT ![s] = [@ EXCEPT !.err = IF ok THEN "nil" ELSE "write failed",
                                           !.already = (peer[s] \in trusted)]]
    /\ pc' = [pc EXCEPT ![s] = "closed"]
    /\ UNCHANGED <<repoVars, registryVars, operatorVars, peer, msg, resp, handler,
                   wasTrusted, initialTrusted, client>>

\* TrustStore.AddTrustedPeer, the write lock held from entry to return
AddTrustedPeer(s, order, ok, partial) ==
    /\ pc[s] = "hs_add"
    /\ setAndSave(s, order, ok, partial)

\* a dispatch table whose default case lists the repositories
DispatchWithDefault(t) == "handleListRepos"

\* the dispatch table of handleTrustedStream
Dispatch(t) ==
    CASE t = TypeGitCommitRequest -> "handleGitCommit"
      [] t = TypeListReposRequest -> "handleListRepos"
      [] t = TypeReadFileRequest -> "handleReadFile"
      [] t = TypeRenameFileRequest -> "handleRenameFile"
      [] t = TypeWriteFileRequest -> "handleWriteFile"
      [] t = TypeLinkRepoRequest -> "handleLinkRepo"
      [] t = TypeSwitchBranchRequest -> "handleSwitchBranch"
      [] t = TypeListFilesRequest -> "handleListFiles"
      [] t = TypeCreateBranchRequest -> "handleCreateBranch"
      [] t = TypeListBranchesRequest -> "handleListBranches"
      [] t = TypeGitStatusRequest -> "handleGitStatus"
      [] t = TypeGitLogRequest -> "handleGitLog"
      [] t = TypeGitDiffRequest -> "handleGitDiff"
      [] t = TypeGitStashSaveRequest -> "handleGitStashSave"
      [] t = TypeGitStashPopRequest -> "handleGitStashPop"
      [] t = TypeGitResetRequest -> "handleGitReset"
      [] OTHER -> "none"

\* handleTrustedStream: read the one command and route it by type
handleTrustedStream(s) ==
    /\ pc[s] = "trusted"
    /\ IF ReadMessage(msg[s]) # "nil"
       THEN /\ loc' = [loc EXCEPT ![s] = [@ EXCEPT !.logged =
                          IF ReadMessage(msg[s]) # "EOF" THEN ReadMessage(msg[s]) ELSE ""]]
            /\ pc' = [pc EXCEPT ![s] = "closed"]
            /\ handler' = handler
       ELSE /\ handler' = [handler EXCEPT ![s] = Dispatch(msg[s].type)]
            /\ pc' = [pc EXCEPT ![s] = IF Dispatch(msg[s].type) = "none" THEN "closed"
                                       ELSE Dispatch(msg[s].type)]
            /\ loc' = [loc EXCEPT ![s] = [@ EXCEPT !.reads = @ + 1]]
    /\ UNCHANGED <<repoVars, trustVars, registryVars, operatorVars, peer, msg, resp,
                   wasTrusted, initialTrusted, client>>

\* ------------------------------------------------- Repository Registry
\* getRepoAliases
getRepoAliases == DOMAIN linkedRepos

\* a handler that answers and then waits for the next command of the stream
handleListReposServing(s) ==
    /\ pc[s] = "handleListRepos"
    /\ resp' = [resp EXCEPT ![s] = Sent(@,
                   [Response(TypeListReposResponse, TRUE, "") EXCEPT !.repos = getRepoAliases])]
    /\ pc' = [pc EXCEPT ![s] = "trusted"]
    /\ UNCHANGED <<repoVars, trustVars, registryVars, operatorVars, peer, msg, loc, handler,
                   wasTrusted, initialTrusted, client>>

\* the body of handleListRepos: list the aliases and answer
listAndAnswer(s) ==
    /\ resp' = [resp EXCEPT ![s] = Sent(@,
                   [Response(TypeListReposResponse, TRUE, "") EXCEPT !.repos = getRepoAliases])]
    /\ pc' = [pc EXCEPT ![s] = "closed"]
    /\ UNCHANGED <<repoVars, trustVars, registryVars, operatorVars, peer, msg, loc, handler,
                   wasTrusted, initialTrusted, client>>

\* handleListRepos
handleListRepos(s) ==
    /\ pc[s] = "handleListRepos"
    /\ listAndAnswer(s)

\* map assignment linkedRepos[alias] = absPath
SetAlias(m, alias, path) ==
    [a \in DOMAIN m \cup {alias} |-> IF a = alias THEN path ELSE m[a]]

\* the two outcomes of handleLinkRepo: the alias stored in the map, or
\* "Invalid path"
storeOrRefuse(s, absOk) ==
    /\ IF absOk
       THEN /\ linkedRepos' = SetAlias(linkedRepos, msg[s].alias, Abs(msg[s].arg))
            /\ pc' = [pc EXCEPT ![s] = "link_marshal"]
            /\ resp' = resp
       ELSE /\ linkedRepos' = linkedRepos
            /\ pc' = [pc EXCEPT ![s] = "closed"]
            /\ resp' = [resp EXCEPT ![s] = Sent(@, Response(TypeLinkRepoResponse, FALSE, "Invalid path"))]
    /\ UNCHANGED <<repoVars, trustVars, linkedDisk, linkedOK, operatorVars, peer, msg, loc,
                   handler, wasTrusted, initialTrusted, client>>

\* handleLinkRepo: resolve the path and store the alias in the map; a
\* relative path needs os.Getwd, which can fail
handleLinkRepo(s, absOk) ==
    /\ pc[s] = "handleLinkRepo"
    /\ ~msg[s].err
    /\ absOk \/ ~IsAbs(msg[s].arg)
    /\ storeOrRefuse(s, absOk)

\* saveLinkedRepos, first half: json.MarshalIndent(linkedRepos)
saveLinkedReposMarshal(s) ==
    /\ pc[s] = "link_marshal"
    /\ loc' = [loc EXCEPT ![s] = [@ EXCEPT !.data = linkedRepos]]
    /\ pc' = [pc EXCEPT ![s] = "link_write"]
    /\ UNCHANGED <<repoVars, trustVars, registryVars, operatorVars, peer, msg, resp, handler,
                   wasTrusted, initialTrusted, client>>

\* saveLinkedRepos, second half: os.WriteFile, then the LinkRepo response
saveLinkedReposWrite(s, ok, partial) ==
    /\ pc[s] = "link_write"
    /\ linkedDisk' = IF ok THEN Doc(loc[s].data)
                     ELSE IF partial THEN Truncated ELSE linkedDisk
    /\ resp' = [resp EXCEPT ![s] = Sent(@,
                   IF ok THEN Response(TypeLinkRepoResponse, TRUE, "")
                   ELSE Response(TypeLinkRepoResponse, FALSE, "Failed to save repo list"))]
    /\ linkedOK' = IF ok THEN linkedOK \cup {msg[s].alias} ELSE linkedOK
    /\ pc' = [pc EXCEPT ![s] = "closed"]
    /\ UNCHANGED <<repoVars, trustVars, linkedRepos, operatorVars, peer, msg, loc, handler,
                   wasTrusted, initialTrusted, client>>

\* loadLinkedRepos: the aliases a restarted daemon would hold
loadLinkedRepos(doc) == IF doc.whole THEN DOMAIN doc.body ELSE {}

\* TrustStore.load: the peers a restarted daemon would trust
load(doc) == IF doc.whole THEN {doc.body[i] : i \in DOMAIN doc.body} ELSE {}

\* ------------------------------------------------------ git repository
\* branch names; Dev is a prefix of Dev2, Gone names no branch
Main == <<"m", "a", "i", "n">>
Dev == <<"d", "e", "v">>
Dev2 == <<"d", "e", "v", "2">>
Gone == <<"g", "o", "n", "e">>
Branches == {Main, Dev, Dev2}

\* fmt.Sprintf("p2p-auto-stash-for-%s", branch)
StashTag(b) == <<"p", "2", "p", "-", "a", "u", "t", "o", "-", "s", "t", "a", "s", "h", "-", "f", "o", "r", "-">> \o b

\* decimal digit of a stash position
Digit(i) == <<"0", "1", "2", "3", "4", "5", "6", "7", "8", "9">>[i + 1]

\* one line of `git stash list`: stash@{i}: On <branch>: <message>
StashLine(i, e) ==
    <<"s", "t", "a", "s", "h", "@", "{">> \o <<Digit(i)>> \o <<"}", ":", " ", "O", "n", " ">> \o e.on \o <<":", " ">> \o e.msg

Logged(s, op) == [gitLog EXCEPT ![s] = Append(@, op)]

\* the git invocations stream s has made, in order
OpsOf(s) == gitLog[s]

RemoveAt(q, i) == SubSeq(q, 1, i - 1) \o SubSeq(q, i + 1, Len(q))

\* a branch test that never reports the target as current
SameBranchNever(current, target) == FALSE

\* currentBranch == payload.BranchName
SameBranch(current, target) == current = target

\* handleSwitchBranch up to the stash step: alias lookup, git rev-parse
\* --abbrev-ref HEAD, and the already-on-branch answer
handleSwitchBranch(s, revOk) ==
    /\ pc[s] = "handleSwitchBranch"
    /\ IF msg[s].alias \notin DOMAIN linkedRepos
       THEN /\ resp' = [resp EXCEPT ![s] = Sent(@,
                   Response(TypeSwitchBranchResponse, FALSE, "Error: unknown repository alias"))]
            /\ pc' = [pc EXCEPT ![s] = "closed"]
            /\ revOk
            /\ UNCHANGED <<loc, gitLog, faults>>
       ELSE /\ gitLog' = Logged(s, "rev-parse")
            /\ loc' = [loc EXCEPT ![s] = [@ EXCEPT !.root = linkedRepos[msg[s].alias],
                                                   !.current = branch,
                                                   !.wt0 = wt,
                                                   !.after = {r \in Streams : pc[r] = "closed"},
                                                   !.err = IF revOk THEN "nil"
                                                           ELSE "rev-parse failed"]]
            /\ faults' = (faults \/ ~revOk)
            /\ IF ~revOk
               THEN /\ resp' = resp
                    /\ pc' = [pc EXCEPT ![s] = "closed"]
               ELSE IF SameBranch(branch, msg[s].arg)
               THEN /\ resp' = [resp EXCEPT ![s] = Sent(@,
                           Response(TypeSwitchBranchResponse, TRUE, "Already on branch"))]
                    /\ pc' = [pc EXCEPT ![s] = "closed"]
               ELSE /\ resp' = resp
                    /\ pc' = [pc EXCEPT ![s] = "sw_stash"]
    /\ UNCHANGED <<trustVars, registryVars, operatorVars, peer, msg, handler,
                   wasTrusted, initialTrusted, client, branch, wt, stash, committed,
                   created, fsLog>>
    /\ UNCHANGED branches

\* a stash step that treats a clean tree as a failure of the switch
gitStashSaveStrict(s, ok) ==
    /\ pc[s] = "sw_stash"
    /\ ok \/ wt # {}
    /\ gitLog' = Logged(s, "stash save")
    /\ IF wt = {}
       THEN /\ resp' = [resp EXCEPT ![s] = Sent(@,
                   Response(TypeSwitchBranchResponse, FALSE, "No local changes to save"))]
            /\ pc' = [pc EXCEPT ![s] = "closed"]
            /\ UNCHANGED <<stash, wt, loc, faults>>
       ELSE /\ IF ok
               THEN /\ stash' = <<[on |-> branch, msg |-> StashTag(loc[s].current),
                                    work |-> wt]>> \o stash
                    /\ wt' = {}
               ELSE UNCHANGED <<stash, wt>>
            /\ faults' = (faults \/ ~ok)
            /\ loc' = [loc EXCEPT ![s] = [@ EXCEPT !.saved = IF ok THEN wt ELSE {}]]
            /\ resp' = resp
            /\ pc' = [pc EXCEPT ![s] = "sw_checkout"]
    /\ UNCHANGED <<trustVars, registryVars, operatorVars, peer, msg,
                   handler, wasTrusted, initialTrusted, client, branch, committed, created,
                   fsLog>>
    /\ UNCHANGED branches

\* handleSwitchBranch step 2: git stash save --include-untracked <tag of
\* current>; the exit status is ignored; a clean tree stashes nothing
gitStashSave(s, ok) ==
    /\ pc[s] = "sw_stash"
    /\ ok \/ wt # {}
    /\ gitLog' = Logged(s, "stash save")
    /\ IF ok /\ wt # {}
       THEN /\ stash' = <<[on |-> branch, msg |-> StashTag(loc[s].current), work |-> wt]>>
                            \o stash
            /\ wt' = {}
       ELSE UNCHANGED <<stash, wt>>
    /\ faults' = (faults \/ ~ok)
    /\ loc' = [loc EXCEPT ![s] = [@ EXCEPT !.saved = IF ok THEN wt ELSE {}]]
    /\ pc' = [pc EXCEPT ![s] = "sw_checkout"]
    /\ UNCHANGED <<trustVars, registryVars, operatorVars, peer, msg, resp,
                   handler, wasTrusted, initialTrusted, client, branch, committed, created,
                   fsLog>>
    /\ UNCHANGED branches

\* outcomes of `git checkout <target>`: it fails for a name that is no
\* branch and may fail over local changes; local changes it does not
\* object to stay in the working tree
CheckoutCan(target, ok) ==
    IF ok THEN target \in branches
    ELSE target \notin branches \/ wt # {}

\* handleSwitchBranch step 3: git checkout <target>
gitCheckout(s, ok) ==
    /\ pc[s] = "sw_checkout"
    /\ CheckoutCan(msg[s].arg, ok)
    /\ gitLog' = Logged(s, "checkout")
    /\ faults' = (faults \/ (~ok /\ msg[s].arg \in branches))
    /\ IF ok
       THEN /\ branch' = msg[s].arg
            /\ resp' = resp
            /\ pc' = [pc EXCEPT ![s] = "sw_find"]
       ELSE /\ branch' = branch
            /\ resp' = [resp EXCEPT ![s] = Sent(@,
                   Response(TypeSwitchBranchResponse, FALSE, "checkout output"))]
            /\ pc' = [pc EXCEPT ![s] = "closed"]
    /\ UNCHANGED <<trustVars, registryVars, operatorVars, peer, msg, loc, handler,
                   wasTrusted, initialTrusted, client, wt, stash, committed, created, fsLog>>
    /\ UNCHANGED branches

\* what `git stash pop` prints when it worked and when it failed
PopOutputs == {"pop output", "pop error output"}

\* fmt.Sprintf("Switched to branch '%s'.\nRestored previous work for this
\* branch:\n%s", payload.BranchName, string(popOut))
RestoredText(popOut) ==
    IF popOut = "pop output" THEN "Switched. Restored previous work: pop output"
    ELSE "Switched. Restored previous work: pop error output"

\* fmt.Sprintf("Switched to branch '%s'. No previous work was stashed for
\* this branch.", payload.BranchName)
NoStashText == "Switched. No previous work was stashed"

\* the line test of findStashIndex: strings.Contains(line, stashMessage)
StashMatches(i, stashMessage) == Contains(StashLine(i - 1, stash[i]), stashMessage)

\* findStashIndex: position (from 1) of the first listed stash whose line
\* contains the message, 0 when there is none
findStashIndex(stashMessage) ==
    IF \E i \in DOMAIN stash : StashMatches(i, stashMessage)
    THEN CHOOSE i \in DOMAIN stash :
             /\ StashMatches(i, stashMessage)
             /\ \A j \in 1..(i - 1) : ~StashMatches(j, stashMessage)
    ELSE 0

\* handleSwitchBranch step 4: look for the stash of the new branch
gitStashList(s) ==
    /\ pc[s] = "sw_find"
    /\ gitLog' = Logged(s, "stash list")
    /\ LET i == findStashIndex(StashTag(msg[s].arg))
       IN IF i # 0
          THEN /\ loc' = [loc EXCEPT ![s] = [@ EXCEPT !.index = i]]
               /\ resp' = resp
               /\ pc' = [pc EXCEPT ![s] = "sw_pop"]
          ELSE /\ loc' = loc
               /\ resp' = [resp EXCEPT ![s] = Sent(@,
                      Response(TypeSwitchBranchResponse, TRUE, NoStashText))]
               /\ pc' = [pc EXCEPT ![s] = "closed"]
    /\ UNCHANGED <<trustVars, registryVars, operatorVars, peer, msg, handler,
                   wasTrusted, initialTrusted, client, branch, wt, stash, committed, created,
                   faults, fsLog>>
    /\ UNCHANGED branches

\* outcomes of `git stash pop stash@{i}`: it fails for a position that is
\* not listed and may fail over local changes
PopCan(i, ok) ==
    IF ok THEN i \in DOMAIN stash
    ELSE i \notin DOMAIN stash \/ wt # {}

\* handleSwitchBranch step 5: git stash pop <index>; the exit status is
\* ignored and success=true is answered with the pop's output appended
gitStashPop(s, ok) ==
    /\ pc[s] = "sw_pop"
    /\ PopCan(loc[s].index, ok)
    /\ gitLog' = Logged(s, "stash pop")
    /\ faults' = (faults \/ ~ok)
    /\ IF ok
       THEN /\ wt' = wt \cup stash[loc[s].index].work
            /\ stash' = RemoveAt(stash, loc[s].index)
       ELSE UNCHANGED <<wt, stash>>
    /\ loc' = [loc EXCEPT ![s] = [@ EXCEPT !.err = IF ok THEN "nil" ELSE "exit status 1",
                                           !.cmdOut = IF ok THEN "pop output"
                                                      ELSE "pop error output"]]
    /\ resp' = [resp EXCEPT ![s] = Sent(@,
           Response(TypeSwitchBranchResponse, TRUE,
                    RestoredText(IF ok THEN "pop output" ELSE "pop error output")))]
    /\ pc' = [pc EXCEPT ![s] = "closed"]
    /\ UNCHANGED <<trustVars, registryVars, operatorVars, peer, msg, handler,
                   wasTrusted, initialTrusted, client, branch, committed, created, fsLog>>
    /\ UNCHANGED branches

\* no handler is between two of its steps
Quiescent == \A s \in Streams : pc[s] \in {"idle", "closed"}

\* uncommitted work appears in the working tree of the checked-out branch
\* (a file of the repository is written); k numbers the pieces of work
Edit(k) ==
    /\ Quiescent
    /\ k = Cardinality(created) + 1
    /\ wt' = wt \cup {<<branch, k>>}
    /\ created' = created \cup {<<branch, k>>}
    /\ UNCHANGED <<trustVars, registryVars, operatorVars, pc, peer, msg, resp, loc,
                   handler, wasTrusted, initialTrusted, client, branch, stash, committed,
                   faults, branches, gitLog, fsLog>>

\* ---------------------------------------------------------------- commit
\* what `git commit` prints, and exits non-zero with, on a clean tree
OutNothingToCommit == <<"n", "o", "t", "h", "i", "n", "g", " ", "t", "o", " ", "c", "o", "m", "m", "i", "t", ",", " ", "w", "o", "r", "k", "i", "n", "g", " ", "t", "r", "e", "e", " ", "c", "l", "e", "a", "n">>
\* what it prints when it fails for another reason
OutCommitError == <<"f", "a", "t", "a", "l", ":", " ", "u", "n", "a", "b", "l", "e", " ", "t", "o", " ", "w", "r", "i", "t", "e", " ", "c", "o", "m", "m", "i", "t">>
OutCommitted == <<"1", " ", "f", "i", "l", "e", " ", "c", "h", "a", "n", "g", "e", "d">>

\* the text CommitAndPush looks for in the commit output
NothingToCommitText == <<"n", "o", "t", "h", "i", "n", "g", " ", "t", "o", " ", "c", "o", "m", "m", "i", "t">>

\* a commit step that treats every failure as fatal
IsNothingToCommitNever(out) == FALSE

\* strings.Contains(string(out), "nothing to commit")
IsNothingToCommit(out) == Contains(out, NothingToCommitText)

\* handleGitCommit up to the call of CommitAndPush: the alias lookup
handleGitCommit(s) ==
    /\ pc[s] = "handleGitCommit"
    /\ ~msg[s].err
    /\ IF msg[s].alias \notin DOMAIN linkedRepos
       THEN /\ resp' = [resp EXCEPT ![s] = Sent(@,
                   Response(TypeGitCommitResponse, FALSE, "Error: Unknown repository alias"))]
            /\ pc' = [pc EXCEPT ![s] = "closed"]
            /\ loc' = loc
       ELSE /\ resp' = resp
            /\ pc' = [pc EXCEPT ![s] = "cp_checkout"]
            /\ loc' = [loc EXCEPT ![s] = [@ EXCEPT !.root = linkedRepos[msg[s].alias]]]
    /\ UNCHANGED <<repoVars, trustVars, registryVars, operatorVars, peer, msg,
                   handler, wasTrusted, initialTrusted, client>>

\* a CommitAndPush that answers a failed step and goes on to the push
CommitFailedGoingOn(s, output) ==
    /\ resp' = [resp EXCEPT ![s] = Sent(@, Response(TypeGitCommitResponse, FALSE, output))]
    /\ pc' = [pc EXCEPT ![s] = IF pc[s] = "cp_push" THEN "closed" ELSE "cp_push"]

\* the response handleGitCommit writes for a failed step of CommitAndPush
CommitFailed(s, output) ==
    /\ resp' = [resp EXCEPT ![s] = Sent(@, Response(TypeGitCommitResponse, FALSE, output))]
    /\ pc' = [pc EXCEPT ![s] = "closed"]

\* CommitAndPush step 1: git checkout <branch>
CommitCheckout(s, ok) ==
    /\ pc[s] = "cp_checkout"
    /\ CheckoutCan(msg[s].arg, ok)
    /\ gitLog' = Logged(s, "checkout")
    /\ faults' = (faults \/ (~ok /\ msg[s].arg \in branches))
    /\ IF ok
       THEN /\ branch' = msg[s].arg
            /\ resp' = resp
            /\ pc' = [pc EXCEPT ![s] = "cp_add"]
       ELSE /\ branch' = branch
            /\ CommitFailed(s, "checkout output")
    /\ UNCHANGED <<trustVars, registryVars, operatorVars, peer, msg, loc, handler,
                   wasTrusted, initialTrusted, client, wt, stash, committed, created, fsLog>>
    /\ UNCHANGED branches

\* CommitAndPush step 2: git add .
CommitAdd(s, ok) ==
    /\ pc[s] = "cp_add"
    /\ gitLog' = Logged(s, "add")
    /\ faults' = (faults \/ ~ok)
    /\ IF ok
       THEN /\ resp' = resp
            /\ pc' = [pc EXCEPT ![s] = "cp_commit"]
       ELSE CommitFailed(s, "add output")
    /\ UNCHANGED <<trustVars, registryVars, operatorVars, peer, msg, loc, handler,
                   wasTrusted, initialTrusted, client, branch, wt, stash, committed, created,
                   fsLog>>
    /\ UNCHANGED branches

\* CommitAndPush step 3: git commit -m <message>; on a clean tree git exits
\* non-zero and says so, which is answered as success
CommitCommit(s, ok) ==
    /\ pc[s] = "cp_commit"
    /\ ok => wt # {}
    /\ gitLog' = Logged(s, "commit")
    /\ faults' = (faults \/ (~ok /\ wt # {}))
    /\ LET out == IF ok THEN OutCommitted
                  ELSE IF wt = {} THEN OutNothingToCommit ELSE OutCommitError
       IN /\ loc' = [loc EXCEPT ![s] = [@ EXCEPT !.out = out]]
          /\ IF ok
             THEN /\ committed' = committed \cup wt
                  /\ wt' = {}
                  /\ resp' = resp
                  /\ pc' = [pc EXCEPT ![s] = "cp_push"]
             ELSE /\ UNCHANGED <<committed, wt>>
                  /\ IF IsNothingToCommit(out)
                     THEN /\ resp' = [resp EXCEPT ![s] = Sent(@,
                                 Response(TypeGitCommitResponse, TRUE,
                                          "Working tree is clean. Nothing to commit."))]
                          /\ pc' = [pc EXCEPT ![s] = "closed"]
                     ELSE CommitFailed(s, "commit output")
    /\ UNCHANGED <<trustVars, registryVars, operatorVars, peer, msg, handler,
                   wasTrusted, initialTrusted, client, branch, stash, created, fsLog>>
    /\ UNCHANGED branches

\* CommitAndPush step 4: git push <remote> <branch>
CommitPush(s, ok) ==
    /\ pc[s] = "cp_push"
    /\ gitLog' = Logged(s, "push")
    /\ faults' = (faults \/ ~ok)
    /\ IF ok
       THEN /\ resp' = [resp EXCEPT ![s] = Sent(@,
                   Response(TypeGitCommitResponse, TRUE, "Successfully pushed"))]
            /\ pc' = [pc EXCEPT ![s] = "closed"]
       ELSE CommitFailed(s, "push output")
    /\ UNCHANGED <<trustVars, registryVars, operatorVars, peer, msg, loc, handler,
                   wasTrusted, initialTrusted, client, branch, wt, stash, committed, created,
                   fsLog>>
    /\ UNCHANGED branches

\* --------------------------------------------------------- file handlers
\* files and directories on the daemon's disk
ExistingFiles == {RepoRoot \o <<"/", "f">>, SiblingRoot \o <<"/", "f">>}
ExistingDirs == {<<"/">>, Cwd, RepoRoot, SiblingRoot}

Parent(path) == Clean(path \o <<"/", ".", ".">>)

\* path is the root or below it, by path components
Inside(root, path) == path = root \/ HasPrefix(path, root \o <<"/">>)

\* the containment test of handleReadFile and handleWriteFile:
\* strings.HasPrefix(fullPath, cleanRepoRoot)
PathAllowed(fullPath, cleanRepoRoot) == HasPrefix(fullPath, cleanRepoRoot)

AccessDenied == "Access denied: path is outside of repository root"

\* handleReadFile
handleReadFile(s) ==
    /\ pc[s] = "handleReadFile"
    /\ ~msg[s].err
    /\ pc' = [pc EXCEPT ![s] = "closed"]
    /\ IF msg[s].alias \notin DOMAIN linkedRepos
       THEN /\ resp' = [resp EXCEPT ![s] = Sent(@,
                   Response(TypeReadFileResponse, FALSE, "Unknown repository alias"))]
            /\ fsLog' = fsLog
       ELSE LET repoRoot == linkedRepos[msg[s].alias]
                fullPath == Join(repoRoot, msg[s].arg)
                cleanRepoRoot == Clean(repoRoot)
            IN IF ~PathAllowed(fullPath, cleanRepoRoot)
               THEN /\ resp' = [resp EXCEPT ![s] = Sent(@,
                           Response(TypeReadFileResponse, FALSE, AccessDenied))]
                    /\ fsLog' = fsLog
               ELSE /\ fsLog' = fsLog \cup {[s |-> s, op |-> "read", path |-> fullPath]}
                    /\ resp' = [resp EXCEPT ![s] = Sent(@,
                           IF fullPath \in ExistingFiles
                           THEN Response(TypeReadFileResponse, TRUE, "content")
                           ELSE Response(TypeReadFileResponse, FALSE, "no such file"))]
    /\ UNCHANGED <<trustVars, registryVars, operatorVars, peer, msg, loc, handler,
                   wasTrusted, initialTrusted, client, branch, wt, stash, committed, created,
                   faults, gitLog>>
    /\ UNCHANGED branches

\* handleWriteFile; a file written below the repository root is
\* uncommitted work of the checked-out branch
handleWriteFile(s) ==
    /\ pc[s] = "handleWriteFile"
    /\ ~msg[s].err
    /\ pc' = [pc EXCEPT ![s] = "closed"]
    /\ IF msg[s].alias \notin DOMAIN linkedRepos
       THEN /\ resp' = [resp EXCEPT ![s] = Sent(@,
                   Response(TypeWriteFileResponse, FALSE, "unknown repository alias"))]
            /\ UNCHANGED <<fsLog, wt, created>>
       ELSE LET repoRoot == linkedRepos[msg[s].alias]
                fullPath == Join(repoRoot, msg[s].arg)
                cleanRepoRoot == Clean(repoRoot)
                written == Parent(fullPath) \in ExistingDirs
                              /\ fullPath \notin ExistingDirs
            IN IF ~PathAllowed(fullPath, cleanRepoRoot)
               THEN /\ resp' = [resp EXCEPT ![s] = Sent(@,
                           Response(TypeWriteFileResponse, FALSE, AccessDenied))]
                    /\ UNCHANGED <<fsLog, wt, created>>
               ELSE /\ fsLog' = fsLog \cup {[s |-> s, op |-> "write", path |-> fullPath]}
                    /\ resp' = [resp EXCEPT ![s] = Sent(@,
                           IF written
                           THEN Response(TypeWriteFileResponse, TRUE, "")
                           ELSE Response(TypeWriteFileResponse, FALSE, "write error"))]
                    /\ IF written /\ Inside(RepoRoot, fullPath)
                       THEN /\ wt' = wt \cup {<<branch, 1>>}
                            /\ created' = created \cup {<<branch, 1>>}
                       ELSE UNCHANGED <<wt, created>>
    /\ UNCHANGED <<trustVars, registryVars, operatorVars, peer, msg, loc, handler,
                   wasTrusted, initialTrusted, client, branch, stash, committed, faults,
                   gitLog>>
    /\ UNCHANGED branches

\* handleRenameFile: git mv <old> <new> run in the repository root, on the
\* paths as the peer sent them
handleRenameFile(s) ==
    /\ pc[s] = "handleRenameFile"
    /\ pc' = [pc EXCEPT ![s] = "closed"]
    /\ IF msg[s].alias \notin DOMAIN linkedRepos
       THEN /\ resp' = [resp EXCEPT ![s] = Sent(@,
                   Response(TypeRenameFileResponse, FALSE, "unknown repository alias"))]
            /\ UNCHANGED <<fsLog, gitLog, wt, created>>
       ELSE LET repoPath == linkedRepos[msg[s].alias]
                oldFull == Join(repoPath, msg[s].arg)
                newFull == Join(repoPath, msg[s].arg2)
                moved == /\ oldFull \in ExistingFiles
                         /\ Inside(repoPath, oldFull) /\ oldFull # repoPath
                         /\ Inside(repoPath, newFull) /\ newFull # repoPath
                         /\ newFull \notin ExistingFiles
            IN /\ gitLog' = Logged(s, "mv")
               /\ fsLog' = fsLog \cup {[s |-> s, op |-> "git mv", path |-> oldFull],
                                       [s |-> s, op |-> "git mv", path |-> newFull]}
               /\ resp' = [resp EXCEPT ![s] = Sent(@,
                      IF moved THEN Response(TypeRenameFileResponse, TRUE, "")
                      ELSE Response(TypeRenameFileResponse, FALSE, "mv output"))]
               /\ IF moved /\ Inside(RepoRoot, oldFull)
                  THEN /\ wt' = wt \cup {<<branch, 1>>}
                       /\ created' = created \cup {<<branch, 1>>}
                  ELSE UNCHANGED <<wt, created>>
    /\ UNCHANGED <<trustVars, registryVars, operatorVars, peer, msg, loc, handler,
                   wasTrusted, initialTrusted, client, branch, stash, committed, faults>>
    /\ UNCHANGED branches

\* ------------------------------------------- single-command git handlers
\* the exit of the handler's one backend command and its combined output
Ran(s, ok, out) ==
    [loc EXCEPT ![s] = [@ EXCEPT !.root = linkedRepos[msg[s].alias],
                                 !.err = IF ok THEN "nil" ELSE "exit status 1",
                                 !.cmdOut = out]]

\* the alias lookup every repository handler starts with
KnownAlias(s) == msg[s].alias \in DOMAIN linkedRepos

\* handleListFiles: filepath.WalkDir over the root; the listing is carried
\* in the list field of the response
handleListFiles(s, ok) ==
    /\ pc[s] = "handleListFiles"
    /\ ~msg[s].err
    /\ pc' = [pc EXCEPT ![s] = "closed"]
    /\ IF ~KnownAlias(s)
       THEN /\ resp' = [resp EXCEPT ![s] = Sent(@,
                   Response(TypeListFilesResponse, FALSE, "unknown repository alias"))]
            /\ ok
            /\ UNCHANGED <<fsLog, loc>>
       ELSE LET repoRoot == linkedRepos[msg[s].alias]
            IN /\ fsLog' = fsLog \cup {[s |-> s, op |-> "walk", path |-> repoRoot]}
               /\ loc' = Ran(s, ok, IF ok THEN "" ELSE "walk error")
               /\ resp' = [resp EXCEPT ![s] = Sent(@,
                      IF ok
                      THEN [Response(TypeListFilesResponse, TRUE, "")
                               EXCEPT !.repos = {f \in ExistingFiles : Inside(repoRoot, f)}]
                      ELSE Response(TypeListFilesResponse, FALSE, "walk error"))]
    /\ UNCHANGED <<trustVars, registryVars, operatorVars, peer, msg, handler,
                   wasTrusted, initialTrusted, client, branch, wt, stash, committed, created,
                   faults, branches, gitLog>>

\* outcomes of `git branch <name>`: it cannot succeed for a name in use
\* or for the empty name
BranchCan(name, ok) == ok => (name \notin branches /\ name # <<>>)

\* handleCreateBranch: git branch <name>; the new branch is not checked out
handleCreateBranch(s, ok) ==
    /\ pc[s] = "handleCreateBranch"
    /\ ~msg[s].err
    /\ pc' = [pc EXCEPT ![s] = "closed"]
    /\ IF ~KnownAlias(s)
       THEN /\ resp' = [resp EXCEPT ![s] = Sent(@,
                   Response(TypeCreateBranchResponse, FALSE, "Unknown repository alias"))]
            /\ ok
            /\ UNCHANGED <<gitLog, loc, branches, faults>>
       ELSE /\ BranchCan(msg[s].arg, ok)
            /\ gitLog' = Logged(s, "branch")
            /\ loc' = Ran(s, ok, IF ok THEN "" ELSE "branch output")
            /\ branches' = IF ok THEN branches \cup {msg[s].arg} ELSE branches
            /\ faults' = (faults \/ (~ok /\ msg[s].arg \notin branches))
            /\ resp' = [resp EXCEPT ![s] = Sent(@,
                   IF ok THEN Response(TypeCreateBranchResponse, TRUE, "Branch created.")
                   ELSE Response(TypeCreateBranchResponse, FALSE, "branch output"))]
    /\ UNCHANGED <<trustVars, registryVars, operatorVars, peer, msg, handler,
                   wasTrusted, initialTrusted, client, branch, wt, stash, committed, created,
                   fsLog>>

\* handleListBranches: git branch --format %(refname:short)
handleListBranches(s, ok) ==
    /\ pc[s] = "handleListBranches"
    /\ ~msg[s].err
    /\ pc' = [pc EXCEPT ![s] = "closed"]
    /\ IF ~KnownAlias(s)
       THEN /\ resp' = [resp EXCEPT ![s] = Sent(@,
                   Response(TypeListBranchesResponse, FALSE, "unknown repository alias"))]
            /\ ok
            /\ UNCHANGED <<gitLog, loc, faults>>
       ELSE /\ gitLog' = Logged(s, "branch --format")
            /\ loc' = Ran(s, ok, IF ok THEN "branch list" ELSE "branch output")
            /\ faults' = (faults \/ ~ok)
            /\ resp' = [resp EXCEPT ![s] = Sent(@,
                   IF ok
                   THEN [Response(TypeListBranchesResponse, TRUE, "") EXCEPT !.repos = branches]
                   ELSE Response(TypeListBranchesResponse, FALSE, "branch output"))]
    /\ UNCHANGED <<trustVars, registryVars, operatorVars, peer, msg, handler,
                   wasTrusted, initialTrusted, client, branch, wt, stash, committed, created,
                   branches, fsLog>>

\* respPayload.Success = true, whatever `git status` returned
StatusSuccess(ok) == TRUE

\* handleGitStatus: git status --porcelain
handleGitStatus(s, ok) ==
    /\ pc[s] = "handleGitStatus"
    /\ pc' = [pc EXCEPT ![s] = "closed"]
    /\ IF ~KnownAlias(s)
       THEN /\ resp' = [resp EXCEPT ![s] = Sent(@,
                   Response(TypeGitStatusResponse, FALSE, "Error: unknown repository alias"))]
            /\ ok
            /\ UNCHANGED <<gitLog, loc, faults>>
       ELSE LET out == IF ~ok THEN "status error output"
                       ELSE IF wt = {} THEN "" ELSE "status output"
            IN /\ gitLog' = Logged(s, "status")
               /\ loc' = Ran(s, ok, out)
               /\ faults' = (faults \/ ~ok)
               /\ resp' = [resp EXCEPT ![s] = Sent(@,
                      Response(TypeGitStatusResponse, StatusSuccess(ok),
                               IF out = "" THEN "Working tree is clean." ELSE out))]
    /\ UNCHANGED <<trustVars, registryVars, operatorVars, peer, msg, handler,
                   wasTrusted, initialTrusted, client, branch, wt, stash, committed, created,
                   branches, fsLog>>

\* a log handler that runs git in the daemon's directory before it looks
\* the alias up
handleGitLogEager(s, ok) ==
    /\ pc[s] = "handleGitLog"
    /\ pc' = [pc EXCEPT ![s] = "closed"]
    /\ gitLog' = Logged(s, "log")
    /\ faults' = (faults \/ ~ok)
    /\ loc' = [loc EXCEPT ![s] = [@ EXCEPT !.err = IF ok THEN "nil" ELSE "exit status 1",
                                           !.cmdOut = "log output"]]
    /\ resp' = [resp EXCEPT ![s] = Sent(@,
           IF KnownAlias(s) THEN Response(TypeGitLogResponse, ok, "log output")
           ELSE Response(TypeGitLogResponse, FALSE, "Error: unknown repository alias"))]
    /\ UNCHANGED <<trustVars, registryVars, operatorVars, peer, msg, handler,
                   wasTrusted, initialTrusted, client, branch, wt, stash, committed, created,
                   branches, fsLog>>

\* handleGitLog: git log -n 15
handleGitLog(s, ok) ==
    /\ pc[s] = "handleGitLog"
    /\ pc' = [pc EXCEPT ![s] = "closed"]
    /\ IF ~KnownAlias(s)
       THEN /\ resp' = [resp EXCEPT ![s] = Sent(@,
                   Response(TypeGitLogResponse, FALSE, "Error: unknown repository alias"))]
            /\ ok
            /\ UNCHANGED <<gitLog, loc, faults>>
       ELSE LET out == IF ok THEN "log output" ELSE "log error output"
            IN /\ gitLog' = Logged(s, "log")
               /\ loc' = Ran(s, ok, out)
               /\ faults' = (faults \/ ~ok)
               /\ resp' = [resp EXCEPT ![s] = Sent(@, Response(TypeGitLogResponse, ok, out))]
    /\ UNCHANGED <<trustVars, registryVars, operatorVars, peer, msg, handler,
                   wasTrusted, initialTrusted, client, branch, wt, stash, committed, created,
                   branches, fsLog>>

\* handleGitDiff: git diff --color [-- <file>]
handleGitDiff(s, ok) ==
    /\ pc[s] = "handleGitDiff"
    /\ pc' = [pc EXCEPT ![s] = "closed"]
    /\ IF ~KnownAlias(s)
       THEN /\ resp' = [resp EXCEPT ![s] = Sent(@,
                   Response(TypeGitDiffResponse, FALSE, "Error: unknown repository alias"))]
            /\ ok
            /\ UNCHANGED <<gitLog, loc, faults>>
       ELSE LET out == IF ~ok THEN "diff error output"
                       ELSE IF wt = {} THEN "" ELSE "diff output"
            IN /\ gitLog' = Logged(s, "diff")
               /\ loc' = Ran(s, ok, out)
               /\ faults' = (faults \/ ~ok)
               /\ resp' = [resp EXCEPT ![s] = Sent(@,
                      Response(TypeGitDiffResponse, ok,
                               IF out = "" THEN "No differences found." ELSE out))]
    /\ UNCHANGED <<trustVars, registryVars, operatorVars, peer, msg, handler,
                   wasTrusted, initialTrusted, client, branch, wt, stash, committed, created,
                   branches, fsLog>>

\* the message of a stash made on request
RemoteStashTag == <<"p", "2", "p", "-", "r", "e", "m", "o", "t", "e", "-", "s", "t", "a", "s", "h">>

\* handleGitStashSave: git stash save --include-untracked p2p-remote-stash;
\* on a clean tree git stashes nothing and exits zero
handleGitStashSave(s, ok) ==
    /\ pc[s] = "handleGitStashSave"
    /\ pc' = [pc EXCEPT ![s] = "closed"]
    /\ IF ~KnownAlias(s)
       THEN /\ resp' = [resp EXCEPT ![s] = Sent(@,
                   Response(TypeGitStashSaveResponse, FALSE, "Error: unknown repository alias"))]
            /\ ok
            /\ UNCHANGED <<gitLog, loc, faults, stash, wt>>
       ELSE LET out == IF ~ok THEN "stash error output"
                       ELSE IF wt = {} THEN "No local changes to save"
                       ELSE "Saved working directory"
            IN /\ ok \/ wt # {}
               /\ gitLog' = Logged(s, "stash save")
               /\ loc' = Ran(s, ok, out)
               /\ faults' = (faults \/ ~ok)
               /\ IF ok /\ wt # {}
                  THEN /\ stash' = <<[on |-> branch, msg |-> RemoteStashTag, work |-> wt]>>
                                       \o stash
                       /\ wt' = {}
                  ELSE UNCHANGED <<stash, wt>>
               /\ resp' = [resp EXCEPT ![s] = Sent(@,
                      Response(TypeGitStashSaveResponse, ok, out))]
    /\ UNCHANGED <<trustVars, registryVars, operatorVars, peer, msg, handler,
                   wasTrusted, initialTrusted, client, branch, committed, created, branches,
                   fsLog>>

\* handleGitStashPop: git stash pop (the most recent entry)
handleGitStashPop(s, ok) ==
    /\ pc[s] = "handleGitStashPop"
    /\ pc' = [pc EXCEPT ![s] = "closed"]
    /\ IF ~KnownAlias(s)
       THEN /\ resp' = [resp EXCEPT ![s] = Sent(@,
                   Response(TypeGitStashPopResponse, FALSE, "Error: unknown repository alias"))]
            /\ ok
            /\ UNCHANGED <<gitLog, loc, faults, stash, wt>>
       ELSE LET out == IF ok THEN "pop output" ELSE "pop error output"
            IN /\ PopCan(1, ok)
               /\ gitLog' = Logged(s, "stash pop")
               /\ loc' = Ran(s, ok, out)
               /\ faults' = (faults \/ (~ok /\ stash # <<>>))
               /\ IF ok
                  THEN /\ wt' = wt \cup stash[1].work
                       /\ stash' = Tail(stash)
                  ELSE UNCHANGED <<stash, wt>>
               /\ resp' = [resp EXCEPT ![s] = Sent(@,
                      Response(TypeGitStashPopResponse, ok, out))]
    /\ UNCHANGED <<trustVars, registryVars, operatorVars, peer, msg, handler,
                   wasTrusted, initialTrusted, client, branch, committed, created, branches,
                   fsLog>>

\* handleGitReset: git reset --hard HEAD; changes to tracked files are
\* discarded, files git does not track stay, so part of the work may remain
handleGitReset(s, ok, rest) ==
    /\ pc[s] = "handleGitReset"
    /\ pc' = [pc EXCEPT ![s] = "closed"]
    /\ IF ~KnownAlias(s)
       THEN /\ resp' = [resp EXCEPT ![s] = Sent(@,
                   Response(TypeGitResetResponse, FALSE, "Error: unknown repository alias"))]
            /\ ok /\ rest = {}
            /\ UNCHANGED <<gitLog, loc, faults, wt>>
       ELSE LET out == IF ok THEN "HEAD is now at" ELSE "reset error output"
            IN /\ rest \subseteq wt
               /\ ~ok => rest = wt
               /\ gitLog' = Logged(s, "reset")
               /\ loc' = Ran(s, ok, out)
               /\ faults' = (faults \/ ~ok)
               /\ wt' = rest
               /\ resp' = [resp EXCEPT ![s] = Sent(@, Response(TypeGitResetResponse, ok, out))]
    /\ UNCHANGED <<trustVars, registryVars, operatorVars, peer, msg, handler,
                   wasTrusted, initialTrusted, client, branch, stash, committed, created,
                   branches, fsLog>>

\* ------------------------------------------------- session specification
LinkPaths == {RepoRoot, <<"d">>}

\* requests clients send in the session specification
SessionMsgs ==
    {Message(TypeHandshakeRequest, "", NoArg, NoArg),
     Message(TypeListReposRequest, "", NoArg, NoArg),
     Message("BOGUS", "", NoArg, NoArg)}
    \cup {Message(TypeLinkRepoRequest, "docs", p, NoArg) : p \in LinkPaths}
    \cup {Message(TypeLinkRepoRequest, "proj", <<"d">>, NoArg)}

Init ==
    /\ trusted \in SUBSET Peers
    /\ trustedDisk \in {Doc(q) : q \in Enumerations(trusted)}
    /\ initialTrusted = trusted
    /\ linkedRepos = [a \in {"proj"} |-> RepoRoot]
    /\ linkedDisk = Doc(linkedRepos)
    /\ stdin = <<>>
    /\ pc = [s \in Streams |-> "idle"]
    /\ peer = [s \in Streams |-> "peerA"]
    /\ msg = [s \in Streams |-> NoMsg]
    /\ resp = [s \in Streams |-> NoResp]
    /\ loc = [s \in Streams |-> NoLoc]
    /\ handler = [s \in Streams |-> "none"]
    /\ wasTrusted = [s \in Streams |-> FALSE]
    /\ approvedBy = {}
    /\ answered = {}
    /\ linkedOK = {}
    /\ client = NoClient
    /\ branch = Main
    /\ wt = {}
    /\ stash = <<>>
    /\ committed = {}
    /\ created = {}
    /\ faults = FALSE
    /\ branches = Branches
    /\ gitLog = [s \in Streams |-> <<>>]
    /\ fsLog = {}

Next ==
    \/ \E s \in Streams, p \in Peers, m \in SessionMsgs : OpenStream(s, p, m)
    \/ \E s \in Streams : handleStream(s)
    \/ \E s \in Streams : handleHandshake(s)
    \/ \E s \in Streams, line \in Answers : OperatorAnswer(s, line)
    \/ \E s \in Streams : handleHandshakeRead(s)
    \/ \E s \in Streams, ok \in BOOLEAN : handleHandshakeRespond(s, ok)
    \/ \E s \in Streams, order \in PeerLists, ok \in BOOLEAN, partial \in BOOLEAN :
           AddTrustedPeer(s, order, ok, partial)
    \/ \E s \in Streams : handleTrustedStream(s)
    \/ \E s \in Streams : handleListRepos(s)
    \/ \E s \in Streams, ok \in BOOLEAN : handleLinkRepo(s, ok)
    \/ \E s \in Streams : saveLinkedReposMarshal(s)
    \/ \E s \in Streams, ok \in BOOLEAN, partial \in BOOLEAN : saveLinkedReposWrite(s, ok, partial)

Spec == Init /\ [][Next]_vars

\* --------------------------------- specifications over the repository
SwitchMsgs ==
    {Message(TypeSwitchBranchRequest, "proj", b, NoArg) : b \in Branches \cup {Gone}}
    \cup {Message(TypeSwitchBranchRequest, "nope", Main, NoArg)}

\* the daemon started with peerA trusted and proj linked, no stream yet
InitDaemon ==
    /\ trusted = {"peerA"}
    /\ trustedDisk = Doc(<<"peerA">>)
    /\ initialTrusted = trusted
    /\ linkedRepos = [a \in {"proj"} |-> RepoRoot]
    /\ linkedDisk = Doc(linkedRepos)
    /\ stdin = <<>>
    /\ pc = [s \in Streams |-> "idle"]
    /\ peer = [s \in Streams |-> "peerA"]
    /\ msg = [s \in Streams |-> NoMsg]
    /\ resp = [s \in Streams |-> NoResp]
    /\ loc = [s \in Streams |-> NoLoc]
    /\ handler = [s \in Streams |-> "none"]
    /\ wasTrusted = [s \in Streams |-> FALSE]
    /\ approvedBy = {}
    /\ answered = {}
    /\ linkedOK = {}
    /\ client = NoClient
    /\ committed = {}
    /\ faults = FALSE
    /\ branches = Branches
    /\ gitLog = [s \in Streams |-> <<>>]
    /\ fsLog = {}

\* the repository clean, on any of its branches, with an empty stash list
InitRepo ==
    /\ InitDaemon
    /\ branch \in Branches
    /\ wt = {}
    /\ stash = <<>>
    /\ created = {}

NextSwitch ==
    \/ \E s \in Streams, m \in SwitchMsgs : OpenStream(s, "peerA", m)
    \/ \E s \in Streams : handleStream(s)
    \/ \E s \in Streams : handleTrustedStream(s)
    \/ \E s \in Streams, ok \in BOOLEAN : handleSwitchBranch(s, ok)
    \/ \E s \in Streams, ok \in BOOLEAN : gitStashSave(s, ok)
    \/ \E s \in Streams, ok \in BOOLEAN : gitCheckout(s, ok)
    \/ \E s \in Streams : gitStashList(s)
    \/ \E s \in Streams, ok \in BOOLEAN : gitStashPop(s, ok)
    \/ \E k \in 1..MaxEdits : Edit(k)

SpecSwitch == InitRepo /\ [][NextSwitch]_vars

CommitMsgs ==
    {Message(TypeGitCommitRequest, "proj", b, NoArg) : b \in {Main, Dev, Gone}}
    \cup {Message(TypeGitCommitRequest, "nope", Main, NoArg)}

NextCommit ==
    \/ \E s \in Streams, m \in CommitMsgs : OpenStream(s, "peerA", m)
    \/ \E s \in Streams : handleStream(s)
    \/ \E s \in Streams : handleTrustedStream(s)
    \/ \E s \in Streams : handleGitCommit(s)
    \/ \E s \in Streams, ok \in BOOLEAN : CommitCheckout(s, ok)
    \/ \E s \in Streams, ok \in BOOLEAN : CommitAdd(s, ok)
    \/ \E s \in Streams, ok \in BOOLEAN : CommitCommit(s, ok)
    \/ \E s \in Streams, ok \in BOOLEAN : CommitPush(s, ok)
    \/ \E k \in 1..MaxEdits : Edit(k)

SpecCommit == InitRepo /\ [][NextCommit]_vars

\* relative paths peers send
FilePaths ==
    {<<"f">>,
     <<"d", "/", ".", ".", "/", "g">>,
     <<".", ".", "/", "p", "s", "/", "f">>,
     <<".", ".", "/", ".", ".", "/", "e">>}

FileMsgs ==
    {Message(t, a, q, NoArg) :
        t \in {TypeReadFileRequest, TypeWriteFileRequest},
        a \in {"proj", "nope"}, q \in FilePaths}
    \cup {Message(TypeRenameFileRequest, a, q, r) :
        a \in {"proj", "nope"}, q \in FilePaths, r \in FilePaths}

NextFiles ==
    \/ \E s \in Streams, m \in FileMsgs : OpenStream(s, "peerA", m)
    \/ \E s \in Streams : handleStream(s)
    \/ \E s \in Streams : handleTrustedStream(s)
    \/ \E s \in Streams : handleReadFile(s)
    \/ \E s \in Streams : handleWriteFile(s)
    \/ \E s \in Streams : handleRenameFile(s)

SpecFiles == InitRepo /\ [][NextFiles]_vars

\* requests for the single-command handlers, and a request with an alias
\* that is not registered for every repository handler
SimpleTypes ==
    {TypeListFilesRequest, TypeListBranchesRequest, TypeGitStatusRequest,
     TypeGitLogRequest, TypeGitDiffRequest, TypeGitStashSaveRequest,
     TypeGitStashPopRequest, TypeGitResetRequest}

RepoTypes ==
    SimpleTypes \cup {TypeCreateBranchRequest, TypeGitCommitRequest,
                      TypeSwitchBranchRequest, TypeReadFileRequest,
                      TypeWriteFileRequest, TypeRenameFileRequest}

GitMsgs ==
    {Message(t, "proj", NoArg, NoArg) : t \in SimpleTypes}
    \cup {Message(TypeCreateBranchRequest, "proj", b, NoArg) : b \in {Main, Gone}}
    \cup {Message(t, "nope", Main, NoArg) : t \in RepoTypes}

NextGit ==
    \/ \E s \in Streams, m \in GitMsgs : OpenStream(s, "peerA", m)
    \/ \E s \in Streams : handleStream(s)
    \/ \E s \in Streams : handleTrustedStream(s)
    \/ \E s \in Streams, ok \in BOOLEAN : handleListFiles(s, ok)
    \/ \E s \in Streams, ok \in BOOLEAN : handleCreateBranch(s, ok)
    \/ \E s \in Streams, ok \in BOOLEAN : handleListBranches(s, ok)
    \/ \E s \in Streams, ok \in BOOLEAN : handleGitStatus(s, ok)
    \/ \E s \in Streams, ok \in BOOLEAN : handleGitLog(s, ok)
    \/ \E s \in Streams, ok \in BOOLEAN : handleGitDiff(s, ok)
    \/ \E s \in Streams, ok \in BOOLEAN : handleGitStashSave(s, ok)
    \/ \E s \in Streams, ok \in BOOLEAN : handleGitStashPop(s, ok)
    \/ \E s \in Streams, ok \in BOOLEAN, rest \in SUBSET wt : handleGitReset(s, ok, rest)
    \/ \E s \in Streams : handleGitCommit(s)
    \/ \E s \in Streams : handleSwitchBranch(s, TRUE)
    \/ \E s \in Streams : handleReadFile(s)
    \/ \E s \in Streams : handleWriteFile(s)
    \/ \E s \in Streams : handleRenameFile(s)
    \/ \E k \in 1..MaxEdits : Edit(k)

InitGit == InitRepo /\ branch = Main

SpecGit == InitGit /\ [][NextGit]_vars

\* ------------------------------------------------------------ properties
\* stream s was routed while its peer was not in the Trust Store and
\* carries something other than a handshake request
UntrustedNonHandshake(s) ==
    /\ pc[s] \notin {"idle", "accepted"}
    /\ ~wasTrusted[s]
    /\ msg[s].type # TypeHandshakeRequest

\* C1: a stream of a peer that was not in the Trust Store when it was
\* routed, carrying any message type other than HANDSHAKE_REQUEST, never
\* gets a response, is never dispatched to a command handler, and no step
\* the daemon takes for it changes the Trust Store, the Repository Registry
\* (in memory or persisted) or the repository (branch, working tree, stash
\* list, commits, files, git invocations).
Thm_C1 ==
    /\ [](\A s \in Streams :
            UntrustedNonHandshake(s) => resp[s] = NoResp /\ handler[s] = "none")
    /\ [][\A s \in Streams :
            UntrustedNonHandshake(s) /\ pc'[s] # pc[s]
                => UNCHANGED <<trusted, trustedDisk, linkedRepos, linkedDisk,
                               branch, wt, stash, committed, gitLog, fsLog>>]_vars

Witness_C1 ==
    \E s \in Streams :
        /\ pc[s] = "closed"
        /\ ~wasTrusted[s]
        /\ msg[s].type = TypeLinkRepoRequest

\* C2: every command handler runs for a peer the operator approved (answered
\* that peer's handshake prompt with yes) or that was trusted at start-up,
\* and the Trust Store holds no other peers.
CE_C2 ==
    /\ \A s \in Streams :
           handler[s] # "none" => peer[s] \in initialTrusted \cup approvedBy
    /\ trusted \subseteq initialTrusted \cup approvedBy

\* C9: once a LinkRepo for an alias was answered success=true, the alias is
\* in the registry ListRepos reads, and a registry reloaded from the
\* persisted document (taken while that document is whole) holds it too.
CE_C9 ==
    /\ linkedOK \subseteq getRepoAliases
    /\ linkedDisk.whole => linkedOK \subseteq loadLinkedRepos(linkedDisk)

\* stream s runs AddTrustedPeer in this step for a peer already trusted
ReApproval(s) ==
    /\ pc[s] = "hs_add"
    /\ pc'[s] = "closed"
    /\ peer[s] \in trusted

RoundTrip(s1, s2) ==
    /\ s1 # s2
    /\ pc[s1] = "closed" /\ pc[s2] = "closed"
    /\ resp[s1].type = TypeSwitchBranchResponse /\ resp[s1].success
    /\ resp[s2].type = TypeSwitchBranchResponse /\ resp[s2].success
    /\ loc[s1].wt0 # {}
    /\ created = loc[s1].wt0
    /\ msg[s1].arg # loc[s1].current
    /\ loc[s2].current = msg[s1].arg
    /\ msg[s2].arg = loc[s1].current
    /\ s1 \in loc[s2].after
    /\ \A r \in Streams \ {s1, s2} : OpsOf(r) = <<>>
    /\ ~faults

\* C4: from branch A with uncommitted work W, a successful SwitchBranch(B)
\* followed by a successful SwitchBranch(A) ends on A with W in the working
\* tree and no stash entry tagged for A left in the stash list.
CE_C4 ==
    \A s1, s2 \in Streams :
        RoundTrip(s1, s2) =>
            /\ branch = loc[s1].current
            /\ loc[s1].wt0 \subseteq wt
            /\ \A i \in DOMAIN stash : stash[i].msg # StashTag(loc[s1].current)

\* piece of work w is where its branch can get it back
Kept(w) ==
    \/ w \in wt /\ branch = w[1]
    \/ \E i \in DOMAIN stash : w \in stash[i].work /\ stash[i].msg = StashTag(w[1])

\* C5: after any sequence of SwitchBranch requests every piece of
\* uncommitted work is in the working tree while its own branch is checked
\* out or in a stash entry tagged for its branch (stated for the runs in
\* which no backend step failed for an outside reason).
CE_C5 ==
    (Quiescent /\ ~faults) => \A w \in created : Kept(w)

\* stream s is about to read the current branch and it is the target
AlreadyThere(s) ==
    /\ pc[s] = "handleSwitchBranch"
    /\ msg[s].alias \in DOMAIN linkedRepos
    /\ branch = msg[s].arg

\* C6: a SwitchBranch whose target is the branch the backend reports as
\* checked out answers success=true "already on branch" in the step that
\* read the branch, runs no stash, checkout or pop, and leaves branch,
\* working tree and stash list as they were.
Thm_C6 ==
    /\ [][\A s \in Streams :
            AlreadyThere(s) /\ pc'[s] # pc[s] /\ loc'[s].err = "nil" =>
                /\ pc'[s] = "closed"
                /\ resp'[s] = Response(TypeSwitchBranchResponse, TRUE, "Already on branch")
                /\ UNCHANGED <<branch, wt, stash>>
                /\ gitLog' = Logged(s, "rev-parse")]_vars
    /\ [](\A s \in Streams :
            resp[s].output = "Already on branch" => OpsOf(s) = <<"rev-parse">>)

\* the peer-supplied path has a ".." segment and resolves outside the root
Escapes(root, rel) ==
    /\ \E i \in DOMAIN Split(rel, "/") : Split(rel, "/")[i] = <<".", ".">>
    /\ ~Inside(Clean(root), Join(root, rel))

\* stream s carried a file request for a registered repository with an
\* escaping path
EscapingRequest(s) ==
    /\ pc[s] = "closed"
    /\ handler[s] \in {"handleReadFile", "handleWriteFile", "handleRenameFile"}
    /\ msg[s].alias \in DOMAIN linkedRepos
    /\ \/ Escapes(linkedRepos[msg[s].alias], msg[s].arg)
       \/ /\ handler[s] = "handleRenameFile"
          /\ Escapes(linkedRepos[msg[s].alias], msg[s].arg2)

\* C3: ReadFile, WriteFile and RenameFile answer a path with ../ segments
\* that resolves outside the registered root with success=false and an
\* access-denied reason, and make no filesystem access and no git mv for it.
CE_C3 ==
    \A s \in Streams :
        EscapingRequest(s) =>
            /\ ~resp[s].success
            /\ resp[s].output = AccessDenied
            /\ \A e \in fsLog : e.s # s

\* stream r has made a git invocation of CommitAndPush and has another to
\* make
MidCommit(r) == OpsOf(r) # <<>> /\ pc[r] \in {"cp_add", "cp_commit", "cp_push"}

\* C7: the git invocations of two requests against the same repository
\* root never interleave: no request makes a git invocation while another
\* request on the same root is between two of its own.
CE_C7 ==
    [][\A s, r \in Streams :
          (r # s /\ gitLog'[s] # gitLog[s] /\ loc[r].root = loc'[s].root)
              => ~MidCommit(r)]_vars

\* C8: a Commit whose commit step printed "nothing to commit" is answered
\* success=true with the nothing-to-commit message.
Thm_C8 ==
    \A s \in Streams :
        (pc[s] = "closed" /\ Contains(loc[s].out, NothingToCommitText)) =>
            /\ resp[s].type = TypeGitCommitResponse
            /\ resp[s].success
            /\ resp[s].output = "Working tree is clean. Nothing to commit."

Witness_C8 ==
    \E s \in Streams :
        /\ pc[s] = "closed"
        /\ handler[s] = "handleGitCommit"
        /\ loc[s].out = OutNothingToCommit
        /\ OpsOf(s) = <<"checkout", "add", "commit">>

Witness_C6 ==
    \E s \in Streams :
        /\ pc[s] = "closed"
        /\ resp[s].output = "Already on branch"
        /\ wt # {}
        /\ loc[s].wt0 = wt

\* C11: Trust Store membership only grows during a daemon run: no step
\* removes a peer from the in-memory store, whatever the handshake outcome
\* (approval, denial, failed response write, failed save) or command, so
\* every peer trusted at start-up or later stays trusted.
Thm_C11 ==
    /\ [][trusted \subseteq trusted']_vars
    /\ [](initialTrusted \subseteq trusted)

Witness_C11 ==
    /\ initialTrusted # {}
    /\ trusted # initialTrusted
    /\ \E s \in Streams :
           /\ pc[s] = "closed"
           /\ resp[s].type = TypeHandshakeResponse
           /\ ~resp[s].approved
    /\ \E s \in Streams : pc[s] = "closed" /\ loc[s].err = "write failed"

Answered(s) ==
    \/ \E i \in DOMAIN stdin : stdin[i].for = s
    \/ \E r \in Streams : loc[r].answerFor = s

\* the decision the operator typed for the prompt of stream s
DecisionFor(s) ==
    IF \E i \in DOMAIN stdin : stdin[i].for = s
    THEN Approved(stdin[CHOOSE i \in DOMAIN stdin : stdin[i].for = s].line)
    ELSE loc[CHOOSE r \in Streams : loc[r].answerFor = s].approved

\* stream s carried a handshake request of a peer that was not trusted, the
\* operator answered its prompt, the response went out and no save failed
HandshakeDone(s) ==
    /\ pc[s] = "closed"
    /\ ~wasTrusted[s]
    /\ msg[s].type = TypeHandshakeRequest
    /\ Answered(s)
    /\ resp[s].n = 1
    /\ loc[s].err # "write failed"

\* C13: a handshake the operator approved is answered approved=true and its
\* peer is in the Trust Store, in memory and persisted; a handshake the
\* operator denied is answered approved=false and adds nothing to the Trust
\* Store (stated for the runs in which the response write and the save
\* succeed).
CE_C13 ==
    \A s \in Streams :
        HandshakeDone(s) =>
            /\ resp[s].type = TypeHandshakeResponse
            /\ resp[s].approved = DecisionFor(s)
            /\ DecisionFor(s) => peer[s] \in trusted /\ peer[s] \in load(trustedDisk)
            /\ ~DecisionFor(s) => loc[s].err = "none"

\* the handlers that work on a repository named by an alias
RepoHandlers ==
    {Dispatch(t) : t \in RepoTypes}

\* stream s carries a request for a repository handler and names an alias
\* that is not in the Repository Registry
UnknownAlias(s) ==
    /\ handler[s] \in RepoHandlers
    /\ msg[s].alias \notin DOMAIN linkedRepos

\* C14: a request to a repository handler naming an alias that is not
\* registered is answered with one response of the handler's kind with
\* success=false and a reason, the step that answers it changes nothing in
\* the repository, and no git invocation or filesystem access is made for
\* the request.
Thm_C14 ==
    /\ [](\A s \in Streams :
            (UnknownAlias(s) /\ pc[s] = "closed") =>
                /\ resp[s].n = 1
                /\ resp[s].type # "none"
                /\ ~resp[s].success
                /\ resp[s].output # ""
                /\ gitLog[s] = <<>>
                /\ \A e \in fsLog : e.s # s)
    /\ [][\A s \in Streams :
            (UnknownAlias(s) /\ pc'[s] # pc[s]) =>
                UNCHANGED <<branch, wt, stash, committed, branches, gitLog, fsLog>>]_vars

Witness_C14 ==
    \E s1, s2 \in Streams :
        /\ UnknownAlias(s1) /\ pc[s1] = "closed" /\ handler[s1] = "handleGitReset"
        /\ UnknownAlias(s2) /\ pc[s2] = "closed" /\ handler[s2] = "handleSwitchBranch"
        /\ wt # {}

\* the one backend command of the handler of stream s exited non-zero
BackendFailed(s) ==
    /\ pc[s] = "closed"
    /\ loc[s].err = "exit status 1"

\* C15: a repository command whose backend invocation exited non-zero is
\* answered success=false with the backend's combined output.
CE_C15 ==
    \A s \in Streams :
        BackendFailed(s) =>
            /\ ~resp[s].success
            /\ resp[s].output = loc[s].cmdOut

\* the request types handleTrustedStream has a case for
CommandTypes == RepoTypes \cup {TypeListReposRequest, TypeLinkRepoRequest}

\* stream s was routed to handleTrustedStream and its message has been read
Dispatched(s) == wasTrusted[s] /\ pc[s] \notin {"idle", "accepted", "trusted"}

\* C16: a message of a trusted peer with a type that has no case reaches no
\* handler, gets no response and changes no state, and the stream is
\* closed; a message with a type that has a case goes to one handler, and
\* no two types share a handler.
Thm_C16 ==
    /\ [](\A s \in Streams :
            Dispatched(s) =>
                IF msg[s].type \in CommandTypes
                THEN /\ handler[s] # "none"
                     /\ \A t \in CommandTypes : Dispatch(t) = handler[s] => t = msg[s].type
                ELSE handler[s] = "none" /\ resp[s] = NoResp /\ pc[s] = "closed")
    /\ [][\A s \in Streams :
            (pc[s] = "trusted" /\ pc'[s] # pc[s]) =>
                /\ UNCHANGED <<trusted, trustedDisk, linkedRepos, linkedDisk, branch, wt,
                               stash, committed, branches, gitLog, fsLog>>
                /\ msg[s].type \in CommandTypes => pc'[s] = handler'[s]]_vars

Witness_C16 ==
    \E s1, s2 \in Streams :
        /\ Dispatched(s1) /\ msg[s1].type = "BOGUS" /\ pc[s1] = "closed"
        /\ Dispatched(s2) /\ msg[s2].type = TypeLinkRepoRequest /\ pc[s2] = "closed"

\* the handshake of stream s was answered approved=false
Denied(s) ==
    /\ pc[s] = "closed"
    /\ resp[s].type = TypeHandshakeResponse
    /\ ~resp[s].approved

\* C17: a denial records nothing: the step that answers approved=false
\* leaves the Trust Store and its file as they were, the peer of a denied
\* handshake is trusted only if it was at start-up or another handshake
\* of it was approved, and a handshake request of an untrusted peer always
\* gets a prompt, also after a denial for the same peer.
Thm_C17 ==
    /\ [][\A s \in Streams :
            (pc[s] = "hs_respond" /\ ~loc[s].approved /\ pc'[s] # pc[s]) =>
                pc'[s] = "closed" /\ UNCHANGED <<trusted, trustedDisk>>]_vars
    /\ [][\A s \in Streams :
            (pc[s] = "handshake" /\ msg[s].type = TypeHandshakeRequest /\ pc'[s] # pc[s]) =>
                pc'[s] = "prompt"]_vars
    /\ [](\A s \in Streams :
            (Denied(s) /\ peer[s] \in trusted) =>
                \/ peer[s] \in initialTrusted
                \/ \E r \in Streams : peer[r] = peer[s] /\ loc[r].approved)

Witness_C17 ==
    \E s1, s2 \in Streams :
        /\ Denied(s1)
        /\ s1 \in loc[s2].after
        /\ peer[s2] = peer[s1]
        /\ pc[s2] = "closed"
        /\ resp[s2].approved
        /\ peer[s2] \in trusted

\* ------------------------------------ the accesses at the grain of locks
\* the streams inside TrustStore.IsTrusted and inside AddTrustedPeer
TrustReaders == {s \in Streams : pc[s] = "ts_rlocked"}
TrustWriters == {s \in Streams : pc[s] = "ts_locked"}

\* the streams inside a read of linkedRepos (getRepoAliases) and inside the
\* map assignment of handleLinkRepo
RegistryReaders == {s \in Streams : pc[s] = "reg_read"}
RegistryWriters == {s \in Streams : pc[s] = "reg_write"}

\* ts.mutex.RLock(): granted while no writer holds the mutex
RLock(s) ==
    /\ pc[s] = "accepted"
    /\ TrustWriters = {}
    /\ pc' = [pc EXCEPT ![s] = "ts_rlocked"]
    /\ UNCHANGED <<repoVars, trustVars, registryVars, operatorVars, peer, msg, resp, loc,
                   handler, wasTrusted, initialTrusted, client>>

\* the map read of IsTrusted, the deferred RUnlock, and handleStream's branch
IsTrustedRUnlock(s) ==
    /\ pc[s] = "ts_rlocked"
    /\ routeOnTrust(s)

\* ts.mutex.Lock(): granted while nobody holds the mutex
Lock(s) ==
    /\ pc[s] = "hs_add"
    /\ TrustWriters = {}
    /\ TrustReaders = {}
    /\ pc' = [pc EXCEPT ![s] = "ts_locked"]
    /\ UNCHANGED <<repoVars, trustVars, registryVars, operatorVars, peer, msg, resp, loc,
                   handler, wasTrusted, initialTrusted, client>>

\* the body of AddTrustedPeer and the deferred Unlock
AddTrustedPeerUnlock(s, order, ok, partial) ==
    /\ pc[s] = "ts_locked"
    /\ setAndSave(s, order, ok, partial)

\* getRepoAliases begins to range over linkedRepos; nothing is acquired
RangeBegin(s) ==
    /\ pc[s] = "handleListRepos"
    /\ pc' = [pc EXCEPT ![s] = "reg_read"]
    /\ UNCHANGED <<repoVars, trustVars, registryVars, operatorVars, peer, msg, resp, loc,
                   handler, wasTrusted, initialTrusted, client>>

\* the range ends and handleListRepos answers
RangeEnd(s) ==
    /\ pc[s] = "reg_read"
    /\ listAndAnswer(s)

\* handleLinkRepo has resolved the path and begins the map assignment;
\* nothing is acquired
AssignBegin(s) ==
    /\ pc[s] = "handleLinkRepo"
    /\ ~msg[s].err
    /\ pc' = [pc EXCEPT ![s] = "reg_write"]
    /\ UNCHANGED <<repoVars, trustVars, registryVars, operatorVars, peer, msg, resp, loc,
                   handler, wasTrusted, initialTrusted, client>>

\* the map assignment ends
AssignEnd(s) ==
    /\ pc[s] = "reg_write"
    /\ storeOrRefuse(s, TRUE)

\* the session with every access of the Trust Store and of the map of
\* linked repositories split into its beginning and its end
NextLock ==
    \/ \E s \in Streams, p \in Peers, m \in SessionMsgs : OpenStream(s, p, m)
    \/ \E s \in Streams : RLock(s)
    \/ \E s \in Streams : IsTrustedRUnlock(s)
    \/ \E s \in Streams : handleHandshake(s)
    \/ \E s \in Streams, line \in Answers : OperatorAnswer(s, line)
    \/ \E s \in Streams : handleHandshakeRead(s)
    \/ \E s \in Streams, ok \in BOOLEAN : handleHandshakeRespond(s, ok)
    \/ \E s \in Streams : Lock(s)
    \/ \E s \in Streams, order \in PeerLists, ok \in BOOLEAN, partial \in BOOLEAN :
           AddTrustedPeerUnlock(s, order, ok, partial)
    \/ \E s \in Streams : handleTrustedStream(s)
    \/ \E s \in Streams : RangeBegin(s)
    \/ \E s \in Streams : RangeEnd(s)
    \/ \E s \in Streams : handleLinkRepo(s, FALSE)
    \/ \E s \in Streams : AssignBegin(s)
    \/ \E s \in Streams : AssignEnd(s)
    \/ \E s \in Streams : saveLinkedReposMarshal(s)
    \/ \E s \in Streams, ok \in BOOLEAN, partial \in BOOLEAN : saveLinkedReposWrite(s, ok, partial)

SpecLock == Init /\ [][NextLock]_vars

\* no writer of the structure is inside it together with anybody else
Exclusive(writers, readers) ==
    \A w \in writers : writers = {w} /\ readers = {}

\* the Trust Store half, which the RWMutex of TrustStore gives
TrustExclusive == Exclusive(TrustWriters, TrustReaders)

\* C18: no write of the Trust Store overlaps a read or another write of
\* it, and no write of the map of linked repositories overlaps a read or
\* another write of it.
CE_C18 ==
    /\ TrustExclusive
    /\ Exclusive(RegistryWriters, RegistryReaders)

\* two trust checks inside IsTrusted at once
ReadsOverlap == Cardinality(TrustReaders) >= 2

\* C19: a SwitchBranch request whose handler has returned has been
\* answered by one SwitchBranch response, whatever the outcome of the
\* switch was.
CE_C19 ==
    \A s \in Streams :
        (handler[s] = "handleSwitchBranch" /\ pc[s] = "closed") =>
            resp[s].n = 1 /\ resp[s].type = TypeSwitchBranchResponse

\* --------------------------------------------------------- the client
\* the alias the TUI is started with (AppState.CurrentRepo), linked on the
\* daemon
TuiCurrentRepo == "proj"

\* the stream a NewStream of the client gets: the next one the daemon accepts
nextStream ==
    CHOOSE s \in Streams : pc[s] = "idle" /\ \A r \in 1..(s - 1) : pc[r] # "idle"

\* the context of the client
Context(c) ==
    [currentRepo |-> c.currentRepo, currentBranch |-> c.currentBranch,
     CurrentBranch |-> c.CurrentBranch]

\* a command taken up: its name and arguments, the stream it will use
Entered(cmd, alias, arg) ==
    [client EXCEPT !.cmd = cmd, !.alias = alias, !.arg = arg, !.stream = nextStream,
                   !.prev = Context(client)]

\* executor: the REPL takes `use <alias>`, `branch <name>` or
\* `switch <name>`; the last two need a current repo and a name
executor(cmd, alias, arg) ==
    /\ client.cmd = "none"
    /\ \E s \in Streams : pc[s] = "idle"
    /\ \/ cmd = "use" /\ arg = NoArg
       \/ /\ cmd \in {"branch", "switch"}
          /\ client.currentRepo # ""
          /\ alias = client.currentRepo
          /\ arg # NoArg
    /\ client' = Entered(cmd, alias, arg)
    /\ UNCHANGED <<repoVars, trustVars, registryVars, operatorVars, pc, peer, msg, resp, loc,
                   handler, wasTrusted, initialTrusted>>

\* Model.Update on enter in the branches view: CurrentBranch is set to the
\* selected branch, then switchBranchCmd is returned
UpdateEnter(branchName) ==
    /\ client.cmd = "none"
    /\ \E s \in Streams : pc[s] = "idle"
    /\ branchName # client.CurrentBranch
    /\ client' = [Entered("tui", TuiCurrentRepo, branchName)
                      EXCEPT !.CurrentBranch = branchName]
    /\ UNCHANGED <<repoVars, trustVars, registryVars, operatorVars, pc, peer, msg, resp, loc,
                   handler, wasTrusted, initialTrusted>>

\* the request each command writes to its stream
RequestOf(c) ==
    CASE c.cmd = "use" -> Message(TypeListBranchesRequest, c.alias, NoArg, NoArg)
      [] c.cmd = "branch" -> Message(TypeCreateBranchRequest, c.alias, c.arg, NoArg)
      [] OTHER -> Message(TypeSwitchBranchRequest, c.alias, c.arg, NoArg)

\* NewStream and WriteMessage of the command in flight
ClientNewStream(s) ==
    /\ client.cmd # "none"
    /\ s = client.stream
    /\ OpenStream(s, "peerA", RequestOf(client))

\* ReadMessage returned a response and its payload says success=true
SuccessRead(c) ==
    /\ resp[c.stream].n = 1
    /\ resp[c.stream].success

\* the command is over
Returned(c) ==
    [c EXCEPT !.cmd = "none", !.alias = "", !.arg = <<>>, !.stream = 0,
              !.prev = Context(c)]

\* handleUseRepo, handleCreateBranch and handleSwitchBranch of the REPL
\* after the request: read the response, change the context on success
ReplRead ==
    /\ client.cmd \in {"use", "branch", "switch"}
    /\ pc[client.stream] = "closed"
    /\ client' = Returned(
           IF ~SuccessRead(client) THEN client
           ELSE IF client.cmd = "use" THEN [client EXCEPT !.currentRepo = client.alias]
           ELSE [client EXCEPT !.currentBranch = client.arg])
    /\ UNCHANGED <<repoVars, trustVars, registryVars, operatorVars, pc, peer, msg, resp, loc,
                   handler, wasTrusted, initialTrusted>>

\* switchBranchCmd's result reaches Model.Update: branchSwitchedMsg sets
\* CurrentBranch, errorMsg sets the status line only
UpdateResult ==
    /\ client.cmd = "tui"
    /\ pc[client.stream] = "closed"
    /\ client' = Returned(
           IF SuccessRead(client) THEN [client EXCEPT !.CurrentBranch = client.arg]
           ELSE client)
    /\ UNCHANGED <<repoVars, trustVars, registryVars, operatorVars, pc, peer, msg, resp, loc,
                   handler, wasTrusted, initialTrusted>>

\* what the user types and selects
ClientAliases == {"proj", "nope"}
ClientBranches == {Main, Dev, Gone}

NextClient ==
    \/ \E cmd \in {"use", "branch", "switch"}, a \in ClientAliases,
          b \in ClientBranches \cup {NoArg} : executor(cmd, a, b)
    \/ \E b \in ClientBranches : UpdateEnter(b)
    \/ \E s \in Streams : ClientNewStream(s)
    \/ ReplRead
    \/ UpdateResult
    \/ \E s \in Streams : handleStream(s)
    \/ \E s \in Streams : handleTrustedStream(s)
    \/ \E s \in Streams, ok \in BOOLEAN : handleListBranches(s, ok)
    \/ \E s \in Streams, ok \in BOOLEAN : handleCreateBranch(s, ok)
    \/ \E s \in Streams, ok \in BOOLEAN : handleSwitchBranch(s, ok)
    \/ \E s \in Streams, ok \in BOOLEAN : gitStashSave(s, ok)
    \/ \E s \in Streams, ok \in BOOLEAN : gitCheckout(s, ok)
    \/ \E s \in Streams : gitStashList(s)
    \/ \E s \in Streams, ok \in BOOLEAN : gitStashPop(s, ok)
    \/ \E k \in 1..MaxEdits : Edit(k)

SpecClient == InitGit /\ [][NextClient]_vars

\* the REPL changes currentRepo and currentBranch only on reading a
\* success=true answer to the command in flight, to the value asked for
ReplValidates ==
    [][/\ client'.currentRepo # client.currentRepo =>
            /\ client.cmd = "use"
            /\ pc[client.stream] = "closed" /\ SuccessRead(client)
            /\ client'.currentRepo = client.alias
       /\ client'.currentBranch # client.currentBranch =>
            /\ client.cmd \in {"branch", "switch"}
            /\ pc[client.stream] = "closed" /\ SuccessRead(client)
            /\ client'.currentBranch = client.arg]_vars

\* the TUI changes CurrentBranch only on a success=true answer
TuiValidates ==
    [][client'.CurrentBranch # client.CurrentBranch =>
            /\ client.cmd = "tui"
            /\ pc[client.stream] = "closed" /\ SuccessRead(client)
            /\ client'.CurrentBranch = client.arg]_vars

\* a command that ends without a success=true answer leaves the context
\* as it was when the command was entered
FailureKeeps ==
    [][(client.cmd # "none" /\ client'.cmd = "none" /\ ~SuccessRead(client)) =>
            Context(client') = client.prev]_vars

\* C20: the REPL's current repo and current branch and the TUI's
\* CurrentBranch take a new value only after the daemon answered the
\* command's request with success=true, and keep their previous value
\* when the answer is success=false or the request fails.
CE_C20 ==
    /\ ReplValidates
    /\ TuiValidates
    /\ FailureKeeps

\* the switch of stream s found a stash for its target and the pop of it
\* exited non-zero
PopFailed(s) ==
    /\ pc[s] = "closed"
    /\ handler[s] = "handleSwitchBranch"
    /\ loc[s].cmdOut \in PopOutputs
    /\ loc[s].err = "exit status 1"

\* C21: the answer to a switch whose pop failed is neither the success
\* report of a restore (success=true with the restored-work text) nor the
\* report of a switch that found no stash.
CE_C21 ==
    \A s \in Streams :
        PopFailed(s) =>
            /\ ~(resp[s].success /\ \E o \in PopOutputs : resp[s].output = RestoredText(o))
            /\ ~(resp[s].success /\ resp[s].output = NoStashText)

\* the checkout step of stream s fails in this step
CheckoutFails(s) ==
    /\ pc[s] = "sw_checkout"
    /\ pc'[s] # pc[s]
    /\ pc'[s] # "sw_find"

\* the entry the stash step of stream s captured is in the list
SavedListed(s, list) ==
    loc[s].saved # {} =>
        \E i \in DOMAIN list : /\ list[i].work = loc[s].saved
                                /\ list[i].msg = StashTag(loc[s].current)

\* C22: a switch whose checkout fails answers success=false with the
\* checkout's raw output and returns without a pop; the repository is
\* still on the branch that was current when the switch began and the
\* entry its stash step captured is still in the stash list.
CE_C22 ==
    [][\A s \in Streams :
        CheckoutFails(s) =>
            /\ pc'[s] = "closed"
            /\ resp'[s].n = 1 /\ ~resp'[s].success
            /\ resp'[s].type = TypeSwitchBranchResponse
            /\ resp'[s].output = "checkout output"
            /\ "stash pop" \notin {gitLog'[s][i] : i \in DOMAIN gitLog'[s]}
            /\ branch' = loc[s].current
            /\ SavedListed(s, stash')]_vars

\* every other stream finished before the handler of s began or has not
\* reached the repository yet
Alone(s) ==
    \A r \in Streams \ {s} :
        \/ pc[r] \in {"idle", "accepted", "trusted", "handleSwitchBranch"}
        \/ pc[r] = "closed" /\ r \in loc[s].after

\* the same for a switch that has the repository to itself from its first
\* step to its answer
AloneKeeps ==
    [][\A s \in Streams :
        (CheckoutFails(s) /\ Alone(s)) =>
            /\ branch' = loc[s].current
            /\ SavedListed(s, stash')]_vars

\* ------------------------------- switches over a stash list with history
\* a stash entry an earlier switch away from branch b left behind
Entry(b, k) == [on |-> b, msg |-> StashTag(b), work |-> {<<b, k>>}]

\* stash lists earlier switches can have left: two entries, most recent
\* first, tagged for dev or dev2
StashLists == {<<Entry(b1, 3), Entry(b2, 2)>> : b1 \in {Dev, Dev2}, b2 \in {Dev, Dev2}}

\* the repository on main, clean or with one piece of work, over such a list
InitStash ==
    /\ InitDaemon
    /\ branch = Main
    /\ stash \in StashLists
    /\ wt \in {{}, {<<Main, 1>>}}
    /\ created = wt \cup UNION {stash[i].work : i \in DOMAIN stash}

NextStash ==
    \/ \E s \in Streams, m \in SwitchMsgs : OpenStream(s, "peerA", m)
    \/ \E s \in Streams : handleStream(s)
    \/ \E s \in Streams : handleTrustedStream(s)
    \/ \E s \in Streams, ok \in BOOLEAN : handleSwitchBranch(s, ok)
    \/ \E s \in Streams, ok \in BOOLEAN : gitStashSave(s, ok)
    \/ \E s \in Streams, ok \in BOOLEAN : gitCheckout(s, ok)
    \/ \E s \in Streams : gitStashList(s)
    \/ \E s \in Streams, ok \in BOOLEAN : gitStashPop(s, ok)

SpecStash == InitStash /\ [][NextStash]_vars

\* the pop step of stream s removes an entry in this step
Pops(s) == pc[s] = "sw_pop" /\ stash' # stash

\* what is removed is the first entry, most recent first, whose line
\* matches the tag of the target; every other entry stays in place
FirstMatchPopped(s) ==
    LET p == findStashIndex(StashTag(msg[s].arg))
    IN  p # 0 /\ stash' = RemoveAt(stash, p)

\* C23: the entry a switch pops is the first entry of the stash list, in
\* most-recent-first order, that matches the tag of the target, and the
\* older matching entries stay in the list.
CE_C23 == [][\A s \in Streams : Pops(s) => FirstMatchPopped(s)]_vars

\* the same for a switch that has the repository to itself
AlonePopsFirst == [][\A s \in Streams : (Pops(s) /\ Alone(s)) => FirstMatchPopped(s)]_vars

\* a lone switch popped the more recent of two matching entries
TieBroken ==
    \E s \in Streams :
        /\ pc[s] = "closed" /\ loc[s].cmdOut = "pop output"
        /\ \A r \in Streams \ {s} : pc[r] = "idle"
        /\ msg[s].arg = Dev
        /\ stash = <<Entry(Dev, 2)>>

\* C24: the entry a switch to target T pops carries exactly the tag of T,
\* also when one branch name is a prefix of another; stated for a switch
\* that has the repository to itself.
CE_C24 ==
    [][\A s \in Streams :
        (Pops(s) /\ Alone(s)) =>
            /\ loc[s].index \in DOMAIN stash
            /\ stash[loc[s].index].msg = StashTag(msg[s].arg)
            /\ stash[loc[s].index].on = msg[s].arg]_vars

\* C25: every path ReadFile or WriteFile opened is the repository root of
\* its request or lies below it by path components; a sibling directory
\* whose name begins with the root's name is not such a path.
CE_C25 ==
    \A e \in fsLog :
        e.op \in {"read", "write"} =>
            Inside(Clean(linkedRepos[msg[e.s].alias]), e.path)

\* ------------------------------------------ payloads that do not parse
\* the handlers that test the error of json.Unmarshal
CheckedHandlers ==
    {"handleGitCommit", "handleReadFile", "handleWriteFile", "handleListFiles",
     "handleCreateBranch", "handleListBranches", "handleLinkRepo"}

\* if err := json.Unmarshal(rawPayload, &payload); err != nil { return }
returnOnError(s) ==
    /\ pc[s] \in CheckedHandlers
    /\ msg[s].err
    /\ pc' = [pc EXCEPT ![s] = "closed"]
    /\ UNCHANGED <<repoVars, trustVars, registryVars, operatorVars, peer, msg, resp, loc,
                   handler, wasTrusted, initialTrusted, client>>

\* payloads that fail to parse: a JSON string; an object whose repo_path
\* is the alias and whose next field is a number; an object with good
\* fields after a repo_path key that holds a number
RawPayloads ==
    {RawPayload(FALSE, "", NoArg, NoArg, {}),
     RawPayload(TRUE, "proj", NoArg, <<"g">>, {"arg"}),
     RawPayload(TRUE, "proj", Dev, <<"g">>, {"dup"})}

ParseTypes == RepoTypes \cup {TypeLinkRepoRequest}

ParseMsgs ==
    GitMsgs
    \cup {Message(TypeSwitchBranchRequest, "proj", b, NoArg) : b \in {Main, Dev}}
    \cup {Message(t, "proj", <<"f">>, <<"g">>) :
              t \in {TypeReadFileRequest, TypeWriteFileRequest, TypeRenameFileRequest}}
    \cup {Unmarshal(t, raw) : t \in ParseTypes, raw \in RawPayloads}

NextParse ==
    \/ \E s \in Streams, m \in ParseMsgs : OpenStream(s, "peerA", m)
    \/ \E s \in Streams : handleStream(s)
    \/ \E s \in Streams : handleTrustedStream(s)
    \/ \E s \in Streams : returnOnError(s)
    \/ \E s \in Streams, ok \in BOOLEAN : handleListFiles(s, ok)
    \/ \E s \in Streams, ok \in BOOLEAN : handleCreateBranch(s, ok)
    \/ \E s \in Streams, ok \in BOOLEAN : handleListBranches(s, ok)
    \/ \E s \in Streams, ok \in BOOLEAN : handleGitStatus(s, ok)
    \/ \E s \in Streams, ok \in BOOLEAN : handleGitLog(s, ok)
    \/ \E s \in Streams, ok \in BOOLEAN : handleGitDiff(s, ok)
    \/ \E s \in Streams, ok \in BOOLEAN : handleGitStashSave(s, ok)
    \/ \E s \in Streams, ok \in BOOLEAN : handleGitStashPop(s, ok)
    \/ \E s \in Streams, ok \in BOOLEAN, rest \in SUBSET wt : handleGitReset(s, ok, rest)
    \/ \E s \in Streams : handleGitCommit(s)
    \/ \E s \in Streams, ok \in BOOLEAN : handleSwitchBranch(s, ok)
    \/ \E s \in Streams, ok \in BOOLEAN : gitStashSave(s, ok)
    \/ \E s \in Streams, ok \in BOOLEAN : gitCheckout(s, ok)
    \/ \E s \in Streams : gitStashList(s)
    \/ \E s \in Streams, ok \in BOOLEAN : gitStashPop(s, ok)
    \/ \E s \in Streams : handleReadFile(s)
    \/ \E s \in Streams : handleWriteFile(s)
    \/ \E s \in Streams : handleRenameFile(s)
    \/ \E k \in 1..MaxEdits : Edit(k)

SpecParse == InitGit /\ [][NextParse]_vars

\* the handler of stream s got a payload that did not parse, and returned
ParseFailed(s) ==
    /\ msg[s].err
    /\ handler[s] # "none"
    /\ pc[s] = "closed"

\* the response type of each file handler
FileResponse(h) ==
    CASE h = "handleReadFile" -> TypeReadFileResponse
      [] h = "handleWriteFile" -> TypeWriteFileResponse
      [] OTHER -> TypeRenameFileResponse

\* C26: a ReadFile, WriteFile or RenameFile request whose payload does not
\* parse is answered with one success=false response of the handler's
\* response type.
CE_C26 ==
    \A s \in Streams :
        (ParseFailed(s) /\ handler[s] \in {"handleReadFile", "handleWriteFile",
                                            "handleRenameFile"}) =>
            /\ resp[s].n = 1
            /\ resp[s].type = FileResponse(handler[s])
            /\ ~resp[s].success

\* C27: a handler whose payload did not parse has made no git invocation
\* and no filesystem access, has put nothing on the stash list, and has
\* left the registry as it was.
CE_C27 ==
    [][\A s \in Streams :
          (msg[s].err /\ handler[s] # "none" /\ pc'[s] # pc[s]) =>
              /\ gitLog'[s] = <<>>
              /\ \A e \in fsLog' : e.s # s
              /\ loc'[s].saved = {}
              /\ UNCHANGED <<linkedRepos, linkedDisk>>]_vars

\* a switch whose payload did not parse has put an entry on the stash list
StashedOnParseError ==
    \E s \in Streams :
        /\ msg[s].err
        /\ handler[s] = "handleSwitchBranch"
        /\ loc[s].saved # {}
        /\ SavedListed(s, stash)

\* ------------------------------------------ a blocked session and the others
BlockMsgs ==
    {Message(TypeHandshakeRequest, "", NoArg, NoArg),
     Message(TypeListReposRequest, "", NoArg, NoArg),
     Message(TypeSwitchBranchRequest, "proj", Dev, NoArg),
     Message(TypeSwitchBranchRequest, "proj", Main, NoArg)}

\* the steps the goroutine of stream s can take
StreamStep(s) ==
    \/ handleStream(s)
    \/ handleHandshake(s)
    \/ handleHandshakeRead(s)
    \/ \E ok \in BOOLEAN : handleHandshakeRespond(s, ok)
    \/ \E order \in PeerLists, ok \in BOOLEAN, partial \in BOOLEAN :
           AddTrustedPeer(s, order, ok, partial)
    \/ handleTrustedStream(s)
    \/ handleListRepos(s)
    \/ \E ok \in BOOLEAN : handleSwitchBranch(s, ok)
    \/ \E ok \in BOOLEAN : gitStashSave(s, ok)
    \/ \E ok \in BOOLEAN : gitCheckout(s, ok)
    \/ gitStashList(s)
    \/ \E ok \in BOOLEAN : gitStashPop(s, ok)

NextBlock ==
    \/ \E s \in Streams, p \in Peers, m \in BlockMsgs : OpenStream(s, p, m)
    \/ \E s \in Streams, line \in Answers : OperatorAnswer(s, line)
    \/ \E s \in Streams : StreamStep(s)
    \/ \E k \in 1..MaxEdits : Edit(k)

SpecBlock == InitGit /\ [][NextBlock]_vars

\* stream r waits for the operator's line at the approval prompt
AtPrompt(r) == pc[r] = "prompt" /\ stdin = <<>>

\* stream r is inside a git command of a switch that has not returned
InBackend(r) == pc[r] \in {"sw_stash", "sw_checkout", "sw_find", "sw_pop"}

Blocked(r) == AtPrompt(r) \/ InBackend(r)

\* stream s has been accepted and its goroutine has work to do that does
\* not wait for the operator
Runnable(s) == pc[s] \notin {"idle", "closed", "prompt"}

AnsweredDuring(r, s) ==
    /\ r # s
    /\ s \notin loc[r].after
    /\ pc[s] = "closed"
    /\ handler[s] # "none"
    /\ loc[s].reads = 1
    /\ resp[s].n = 1

HungBackend == \E r \in Streams, s \in Streams : InBackend(r) /\ AnsweredDuring(r, s)

\* ------------------------------------------ the stash step on a clean tree
\* stream s takes a step from position p
Leaves(s, p) == pc[s] = p /\ pc'[s] # p

\* C29: every switch to a branch other than the current one goes to the
\* stash step, whatever the work tree holds; the stash step runs git stash
\* save, writes no response and goes on to the checkout; on a clean tree it
\* leaves the stash list as it was; and every checkout of a switch comes
\* right after that switch's stash save.
Thm_C29 ==
    [][\A s \in Streams :
          /\ (Leaves(s, "handleSwitchBranch") /\ msg[s].alias \in DOMAIN linkedRepos
                  /\ loc'[s].err = "nil" /\ branch # msg[s].arg) =>
                 pc'[s] = "sw_stash"
          /\ Leaves(s, "sw_stash") =>
                 /\ gitLog'[s] = Append(gitLog[s], "stash save")
                 /\ resp'[s] = resp[s]
                 /\ pc'[s] = "sw_checkout"
                 /\ (wt = {} => stash' = stash)
                 /\ (stash' # stash =>
                        /\ Tail(stash') = stash
                        /\ Head(stash').msg = StashTag(loc[s].current))
          /\ Leaves(s, "sw_checkout") =>
                 /\ Len(gitLog[s]) >= 2
                 /\ gitLog[s][Len(gitLog[s])] = "stash save"
                 /\ gitLog'[s] = Append(gitLog[s], "checkout")]_vars

\* a switch that found the tree clean ran the stash save, stashed nothing
\* and answered success=true; the stash list is empty
Witness_C29 ==
    \E s \in Streams :
        /\ pc[s] = "closed"
        /\ handler[s] = "handleSwitchBranch"
        /\ loc[s].wt0 = {}
        /\ loc[s].saved = {}
        /\ gitLog[s] = <<"rev-parse", "stash save", "checkout", "stash list">>
        /\ resp[s].n = 1
        /\ resp[s].success
        /\ resp[s].output = NoStashText
        /\ branch = msg[s].arg
        /\ stash = <<>>

\* ------------------------------------------ streams that carry no message
ReadMsgs ==
    {NoBytes, BadBytes, CutBytes,
     Message(TypeListReposRequest, "", NoArg, NoArg),
     Message("BOGUS", "", NoArg, NoArg)}

NextRead ==
    \/ \E s \in Streams, p \in Peers, m \in ReadMsgs : OpenStream(s, p, m)
    \/ \E s \in Streams : handleStream(s)
    \/ \E s \in Streams : handleHandshake(s)
    \/ \E s \in Streams : handleTrustedStream(s)
    \/ \E s \in Streams : handleListRepos(s)

SpecRead == InitGit /\ [][NextRead]_vars

\* the daemon returned from reading stream s, which the peer closed
\* before any byte of a message
PlainEOF(s) == pc[s] = "closed" /\ Decode(msg[s]) = "EOF"

\* C30: a stream closed by the peer before any message is not logged as a
\* read failure, and a stream with malformed bytes is.
CE_C30 ==
    \A s \in Streams :
        /\ PlainEOF(s) => loc[s].logged = ""
        /\ (pc[s] = "closed" /\ Decode(msg[s]) \notin {"nil", "EOF"}) => loc[s].logged # ""

\* ------------------------------------------ one message of every type
DispatchMsgs ==
    {Message(t, "nope", Main, NoArg) : t \in RepoTypes}
    \cup {Message(TypeListReposRequest, "", NoArg, NoArg),
          Message(TypeHandshakeRequest, "", NoArg, NoArg),
          Message("BOGUS", "", NoArg, NoArg)}
    \cup {Message(TypeLinkRepoRequest, "docs", p, NoArg) : p \in LinkPaths}

NextDispatch ==
    \/ \E s \in Streams, m \in DispatchMsgs : OpenStream(s, "peerA", m)
    \/ \E s \in Streams : handleStream(s)
    \/ \E s \in Streams : handleTrustedStream(s)
    \/ \E s \in Streams : handleListRepos(s)
    \/ \E s \in Streams, ok \in BOOLEAN : handleLinkRepo(s, ok)
    \/ \E s \in Streams : saveLinkedReposMarshal(s)
    \/ \E s \in Streams, ok \in BOOLEAN, partial \in BOOLEAN : saveLinkedReposWrite(s, ok, partial)
    \/ \E s \in Streams, ok \in BOOLEAN : handleListFiles(s, ok)
    \/ \E s \in Streams, ok \in BOOLEAN : handleCreateBranch(s, ok)
    \/ \E s \in Streams, ok \in BOOLEAN : handleListBranches(s, ok)
    \/ \E s \in Streams, ok \in BOOLEAN : handleGitStatus(s, ok)
    \/ \E s \in Streams, ok \in BOOLEAN : handleGitLog(s, ok)
    \/ \E s \in Streams, ok \in BOOLEAN : handleGitDiff(s, ok)
    \/ \E s \in Streams, ok \in BOOLEAN : handleGitStashSave(s, ok)
    \/ \E s \in Streams, ok \in BOOLEAN : handleGitStashPop(s, ok)
    \/ \E s \in Streams, ok \in BOOLEAN, rest \in SUBSET wt : handleGitReset(s, ok, rest)
    \/ \E s \in Streams : handleGitCommit(s)
    \/ \E s \in Streams, ok \in BOOLEAN : handleSwitchBranch(s, ok)
    \/ \E s \in Streams : handleReadFile(s)
    \/ \E s \in Streams : handleWriteFile(s)
    \/ \E s \in Streams : handleRenameFile(s)

SpecDispatch == InitGit /\ [][NextDispatch]_vars

\* ------------------------------------------ the Trust Store and its file
\* C31: in every state in which no AddTrustedPeer holds the write lock, the
\* peers a load of the trust file yields are the peers trusted in memory.
CE_C31 == load(trustedDisk) = trusted

\* ------------------------------------------ the steps of CommitAndPush
\* the git invocations of a CommitAndPush that ran to its end
CommitSteps == <<"checkout", "add", "commit", "push">>

\* the output CommitAndPush returns when the named step fails
StepOutput(op) ==
    CASE op = "checkout" -> "checkout output"
      [] op = "add" -> "add output"
      [] op = "commit" -> "commit output"
      [] OTHER -> "push output"

\* stream s ran CommitAndPush and was answered
CommitAnswered(s) ==
    /\ handler[s] = "handleGitCommit"
    /\ pc[s] = "closed"
    /\ OpsOf(s) # <<>>

\* C32: the git invocations of a Commit are a prefix of checkout, add,
\* commit, push; a Commit answered success=false made its last invocation
\* at the step whose output it returns; a Commit whose commit step said
\* nothing to commit made no push; and only a Commit that made all four
\* invocations answers that it pushed.
Thm_C32 ==
    \A s \in Streams :
        /\ handler[s] = "handleGitCommit" =>
               /\ Len(OpsOf(s)) <= 4
               /\ OpsOf(s) = SubSeq(CommitSteps, 1, Len(OpsOf(s)))
               /\ resp[s].n <= 1
        /\ CommitAnswered(s) =>
               /\ resp[s].n = 1
               /\ ~resp[s].success =>
                      resp[s].output = StepOutput(OpsOf(s)[Len(OpsOf(s))])
               /\ IsNothingToCommit(loc[s].out) =>
                      OpsOf(s) = <<"checkout", "add", "commit">>
               /\ (resp[s].success /\ ~IsNothingToCommit(loc[s].out)) =>
                      OpsOf(s) = CommitSteps /\ resp[s].output = "Successfully pushed"

\* a Commit whose add step failed stopped there and returned its output
Witness_C32 ==
    \E s \in Streams :
        /\ CommitAnswered(s)
        /\ OpsOf(s) = <<"checkout", "add">>
        /\ ~resp[s].success
        /\ resp[s].output = "add output"

\* ------------------------------------------ the approval and the grant
\* the approved=true response of the handshake on stream s has been written
ApprovalSent(s) ==
    /\ resp[s].type = TypeHandshakeResponse
    /\ resp[s].approved

\* C33: once the approved=true response for a peer has been written, the
\* peer is in the Trust Store, so that a stream it opens from then on is
\* routed to the command router.
CE_C33 == \A s \in Streams : ApprovalSent(s) => IsTrusted(peer[s])

\* a command of a peer was dropped on the handshake path while the
\* approval written to that peer was waiting for AddTrustedPeer
DroppedAfterApproval ==
    \E s1, s2 \in Streams :
        /\ s1 < s2
        /\ peer[s1] = peer[s2]
        /\ ApprovalSent(s1) /\ pc[s1] = "hs_add"
        /\ pc[s2] = "closed" /\ ~wasTrusted[s2]
        /\ msg[s2].type = TypeListReposRequest
        /\ resp[s2] = NoResp

\* ------------------------------------------ two prompts, one standard input
\* the lines given for the prompt of stream r that are still unread, and
\* the handshakes that consumed a line given for it
Unread(r) == {i \in DOMAIN stdin : stdin[i].for = r}
ConsumersOf(r) == {s \in Streams : loc[s].answerFor = r}

\* C34: the line a handshake consumes was given for a prompt of its own
\* peer, and every line the operator gave is unread or was consumed by one
\* handshake.
CE_C34 ==
    /\ \A s \in Streams :
           loc[s].answerFor # 0 => peer[loc[s].answerFor] = peer[s]
    /\ \A r \in answered : Cardinality(Unread(r)) + Cardinality(ConsumersOf(r)) = 1

\* a peer is trusted through a line the operator gave for the prompt of
\* another peer, which the operator denied
TrustedByOthersAnswer ==
    \E s \in Streams :
        /\ pc[s] = "closed"
        /\ loc[s].answerFor # 0
        /\ peer[loc[s].answerFor] # peer[s]
        /\ peer[s] \in trusted \ (initialTrusted \cup approvedBy)

\* ------------------------------------------ the operator's line and its read
\* what reader.ReadString('\n') can return: a line with its newline, or,
\* when standard input ends first, the characters before the end together
\* with an error
PromptLines ==
    Answers \cup {<<"\n">>, <<"y", "e", "s", "\n">>, <<"y">>, <<"n">>, <<>>}

\* the error of reader.ReadString('\n'), which handleHandshake discards
ReadStringFailed(line) == line = <<>> \/ line[Len(line)] # "\n"

NextPrompt ==
    \/ \E s \in Streams, m \in {Message(TypeHandshakeRequest, "", NoArg, NoArg)} :
           OpenStream(s, "peerB", m)
    \/ \E s \in Streams : handleStream(s)
    \/ \E s \in Streams : handleHandshake(s)
    \/ \E s \in Streams, line \in PromptLines : OperatorAnswer(s, line)
    \/ \E s \in Streams : handleHandshakeRead(s)
    \/ \E s \in Streams, ok \in BOOLEAN : handleHandshakeRespond(s, ok)
    \/ \E s \in Streams, order \in PeerLists, ok \in BOOLEAN, partial \in BOOLEAN :
           AddTrustedPeer(s, order, ok, partial)
    \/ \E s \in Streams : handleTrustedStream(s)

SpecPrompt == InitGit /\ [][NextPrompt]_vars

\* the decision the claim gives for a line and the outcome of its read
FailClosed(line) ==
    /\ ~ReadStringFailed(line)
    /\ TrimSpace(ToLower(line)) = <<"y">>

\* C35: the decision a handshake takes from the line it read is approve
\* exactly when the read succeeded and the line, trimmed and lower-cased,
\* is y; the response carries that decision; and only a handshake that
\* decided approve adds its peer.
CE_C35 ==
    [][\A s \in Streams :
          /\ (pc[s] = "prompt" /\ pc'[s] = "hs_respond") =>
                 loc'[s].approved = FailClosed(Head(stdin).line)
          /\ (pc[s] = "hs_respond" /\ resp'[s].n = 1) =>
                 resp'[s].approved = loc[s].approved
          /\ (pc[s] # "closed" /\ pc'[s] = "closed" /\ ~loc[s].approved) =>
                 trusted' = trusted]_vars

\* ------------------------------------------ a handshake of a trusted peer
\* the daemon has returned from stream s, which carried HANDSHAKE_REQUEST,
\* without having read an operator's line for it
ClosedUnprompted(s) ==
    /\ pc[s] = "closed"
    /\ msg[s].type = TypeHandshakeRequest
    /\ loc[s].answerFor = 0

\* C36: a stream that carried HANDSHAKE_REQUEST is not closed without a
\* HANDSHAKE_RESPONSE, whether or not the daemon already trusts the peer
\* (a handshake that reached the prompt is left to its response write).
CE_C36 ==
    \A s \in Streams :
        ClosedUnprompted(s) =>
            /\ resp[s].n = 1
            /\ resp[s].type = TypeHandshakeResponse

\* ------------------------------------------ a LinkRepo that is refused
\* the LinkRepo on stream s was answered success=false
LinkRefused(s) ==
    /\ pc[s] = "closed"
    /\ handler[s] = "handleLinkRepo"
    /\ resp[s].n = 1
    /\ ~resp[s].success

\* no other stream has assigned the alias of stream s
OnlyLinker(s) ==
    \A r \in Streams \ {s} :
        handler[r] = "handleLinkRepo" =>
            (msg[r].alias # msg[s].alias \/ pc[r] = "handleLinkRepo")

\* C37: after a LinkRepo answered success=false, with no other LinkRepo
\* for the same alias, the registry holds for that alias what it held at
\* start-up: nothing for a new alias, the old root for a known one; a new
\* alias is not among the aliases ListRepos reads.
CE_C37 ==
    \A s \in Streams :
        (LinkRefused(s) /\ OnlyLinker(s)) =>
            IF msg[s].alias = "proj"
            THEN linkedRepos["proj"] = RepoRoot
            ELSE msg[s].alias \notin getRepoAliases

\* ------------------------------------------ two LinkRepos, one file
\* the LinkRepos on streams s1 and s2, for different aliases, were both
\* answered success=true
BothLinked(s1, s2) ==
    /\ msg[s1].alias # msg[s2].alias
    /\ \A s \in {s1, s2} :
           /\ pc[s] = "closed"
           /\ handler[s] = "handleLinkRepo"
           /\ resp[s].n = 1
           /\ resp[s].success

\* C38: after LinkRepos for two different aliases were both answered
\* success=true, a registry reloaded from the persisted document holds
\* both aliases.
CE_C38 ==
    \A s1, s2 \in Streams :
        BothLinked(s1, s2) =>
            {msg[s1].alias, msg[s2].alias} \subseteq loadLinkedRepos(linkedDisk)

\* ------------------------------------------ two approvals, one trust file
InitTrust == Init /\ trusted = {}

NextTrust ==
    \/ \E s \in Streams, p \in Peers, m \in {Message(TypeHandshakeRequest, "", NoArg, NoArg)} :
           OpenStream(s, p, m)
    \/ \E s \in Streams : RLock(s)
    \/ \E s \in Streams : IsTrustedRUnlock(s)
    \/ \E s \in Streams : handleHandshake(s)
    \/ \E s \in Streams, line \in Answers : OperatorAnswer(s, line)
    \/ \E s \in Streams : handleHandshakeRead(s)
    \/ \E s \in Streams, ok \in BOOLEAN : handleHandshakeRespond(s, ok)
    \/ \E s \in Streams : Lock(s)
    \/ \E s \in Streams, order \in PeerLists, ok \in BOOLEAN, partial \in BOOLEAN :
           AddTrustedPeerUnlock(s, order, ok, partial)
    \/ \E s \in Streams : handleTrustedStream(s)

SpecTrust == InitTrust /\ [][NextTrust]_vars

\* AddTrustedPeer on stream s has returned nil
AddedNoError(s) == pc[s] = "closed" /\ loc[s].err = "nil"

\* C39: at the return of an AddTrustedPeer without error, when an
\* AddTrustedPeer for a different peer has returned without error before,
\* both peers are trusted in memory and both are in the trust file.
Thm_C39 ==
    [][\A s1, s2 \in Streams :
          (/\ peer[s1] # peer[s2]
           /\ AddedNoError(s1)
           /\ pc[s2] = "ts_locked"
           /\ pc'[s2] = "closed"
           /\ loc'[s2].err = "nil") =>
              /\ {peer[s1], peer[s2]} \subseteq trusted'
              /\ trustedDisk'.whole
              /\ {peer[s1], peer[s2]} \subseteq load(trustedDisk')]_vars

\* two handshakes of different peers that were pending together have both
\* added their peer without error, and both peers are in memory and in
\* the file
Witness_C39 ==
    \E s1, s2 \in Streams :
        /\ peer[s1] # peer[s2]
        /\ AddedNoError(s1) /\ AddedNoError(s2)
        /\ s1 \notin loc[s2].after /\ s2 \notin loc[s1].after
        /\ {peer[s1], peer[s2]} \subseteq trusted
        /\ {peer[s1], peer[s2]} \subseteq load(trustedDisk)

\* ------------------------------------------ the REPL's branch and the daemon's
\* a `branch` or `switch` command of the REPL ends in this step on a
\* success=true answer
ReplSucceeds ==
    /\ client.cmd \in {"branch", "switch"}
    /\ client'.cmd = "none"
    /\ SuccessRead(client)

\* C40: when a `branch` or `switch` command of the REPL has ended with
\* success, the REPL's currentBranch is the branch checked out on the
\* daemon.
CE_C40 == [][ReplSucceeds => client'.currentBranch = branch']_vars

\* the same for `switch` alone
SwitchTracks ==
    [][(ReplSucceeds /\ client.cmd = "switch") => client'.currentBranch = branch']_vars

====
